---- MODULE Spec2Model ----
(***************************************************************************)
(* Calendar import parser of the team calendar (src/src/lib/               *)
(* calendarParser.ts): the keyword status classifier, the spreadsheet      *)
(* serial decoder, the ICS / Excel / weekly-grid / CSV parsers and the     *)
(* parseCalendarFile facade.                                               *)
(*                                                                         *)
(* Text is modelled by TLA+ strings (Len, SubSeq and \o act on them), so   *)
(* substring tests, lower-casing, trimming and splitting are computed      *)
(* character by character.  A JavaScript Date is the record                *)
(* [day, ms]: day counts days from 1970-01-01 in the local time zone, ms   *)
(* is the time of day in milliseconds; the local zone is taken to have a   *)
(* fixed offset (no DST change between two instants that are compared).    *)
(***************************************************************************)
EXTENDS Integers, Sequences, FiniteSets, TLC

VARIABLES
    file,      \* the File handed to the call: [name, content], or NoFile
    pc,        \* position of the call: "idle", "start", "reading", "done"
    result,    \* the CalendarParseResult the promise resolved with, or NoResult
    reads,     \* number of times the file's content was read (text / arrayBuffer)
    invoked,   \* the format parser the facade called, or "none"
    arg,       \* argument of a helper called on its own
    ret,       \* value a helper called on its own returned, or NoResult
    memberId,  \* the memberId argument of the call
    calls,     \* two parseCalendarFile calls in flight at once: their activations
    db,        \* the database: the tables calendar_events and imported_calendars
    reqs,      \* the requests to the import routes in flight, and their answers
    store,     \* the client store: events and importedCalendars
    chan       \* a store call in flight: its answer and its realtime message

\* the variables of the import routes and of the client store
appVars == <<calls, db, reqs, store, chan>>

vars == <<file, pc, result, reads, invoked, arg, ret, memberId, appVars>>

\* nothing of the import routes or of the store is in use
Unused == [unused |-> TRUE]
AppIdle ==
    /\ calls = Unused /\ db = Unused /\ reqs = Unused /\ store = Unused /\ chan = Unused

NoFile == [name |-> "", content |-> [kind |-> "none"]]
NoResult == [none |-> TRUE]
\* a JavaScript number: NaN, or the integer v
NaN == [nan |-> TRUE, v |-> 0]
Num(n) == [nan |-> FALSE, v |-> n]
\* the Date whose getTime() is NaN
InvalidDate == [invalid |-> TRUE]

\* ------------------------------------------------------------------ bounds

\* a header row of at most MaxColumns columns is looked up on its own
MaxColumns == 2

\* labels are built from at most MaxFrags fragments of LabelFrags
MaxFrags == 2
\* serial numbers 0..MaxSerial are decoded
MaxSerial == 70
\* an iCalendar document has at most MaxVEvents VEVENTs
MaxVEvents == 2
\* a CSV text has at most MaxCsvLines lines after its header line
MaxCsvLines == 2
\* a worksheet has at most MaxRows rows after its header row
MaxRows == 2

\* ------------------------------------------------------------------ const

\* const x = v, then F(x): v is computed once and F is applied to its value
With(v, F(_)) == CHOOSE r \in {F(x) : x \in {v}} : TRUE

\* ------------------------------------------------------------------ strings

\* String.prototype.includes
Includes(s, kw) ==
    \E i \in 1..(Len(s) - Len(kw) + 1) : SubSeq(s, i, i + Len(kw) - 1) = kw

UpperChars == "ABCDEFGHIJKLMNOPQRSTUVWXYZÉÈ"
LowerChars == "abcdefghijklmnopqrstuvwxyzéè"

LowerChar(c) ==
    IF \E i \in 1..Len(UpperChars) : SubSeq(UpperChars, i, i) = c
    THEN LET i == CHOOSE j \in 1..Len(UpperChars) : SubSeq(UpperChars, j, j) = c
         IN SubSeq(LowerChars, i, i)
    ELSE c

\* String.prototype.toLowerCase, character by character
RECURSIVE ToLower(_)
ToLower(s) ==
    IF Len(s) = 0 THEN ""
    ELSE IF Len(s) = 1 THEN LowerChar(s)
    ELSE LET h == Len(s) \div 2
         IN ToLower(SubSeq(s, 1, h)) \o ToLower(SubSeq(s, h + 1, Len(s)))

IsSpace(c) == c \in {" ", "\t", "\n", "\r"}

TrimStart(s) ==
    LET kept == {i \in 1..Len(s) : ~IsSpace(SubSeq(s, i, i))}
    IN IF kept = {} THEN ""
       ELSE SubSeq(s, CHOOSE i \in kept : \A j \in kept : i <= j, Len(s))

TrimEnd(s) ==
    LET kept == {i \in 1..Len(s) : ~IsSpace(SubSeq(s, i, i))}
    IN IF kept = {} THEN ""
       ELSE SubSeq(s, 1, CHOOSE i \in kept : \A j \in kept : i >= j)

\* String.prototype.trim
Trim(s) == TrimEnd(TrimStart(s))

\* String.prototype.split(sep) for a one-character separator: the sequence of
\* the pieces between separators (one piece, the whole string, when there is none)
Split(s, sep) ==
    LET cuts == {i \in 1..Len(s) : SubSeq(s, i, i) = sep}
        cut(k) == IF k = 0 THEN 0
                  ELSE IF k > Cardinality(cuts) THEN Len(s) + 1
                  ELSE CHOOSE i \in cuts : Cardinality({j \in cuts : j < i}) = k - 1
    IN [k \in 1..(Cardinality(cuts) + 1) |-> SubSeq(s, cut(k - 1) + 1, cut(k) - 1)]

\* ------------------------------------------------------------------ statuses

Statuses == {"available", "unavailable", "school", "vacation", "company"}

VacationKeywords == <<"vacances", "congé", "conge">>
SchoolKeywords == <<"école", "ecole", "cours", "hetic", "formation", "étude", "etude">>
UnavailableKeywords == <<"absent", "indisponible">>
AvailableKeywords == <<"entreprise", "disponible", "travail", "work">>

IncludesAny(s, kws) == \E i \in 1..Len(kws) : Includes(s, kws[i])

\* mutant: the school tier is tested before the vacation tier
detectStatusSchoolFirst(summary) ==
    With(ToLower(summary), LAMBDA lowerSummary :
        IF IncludesAny(lowerSummary, SchoolKeywords) THEN "school"
        ELSE IF IncludesAny(lowerSummary, VacationKeywords) THEN "vacation"
        ELSE IF IncludesAny(lowerSummary, UnavailableKeywords) THEN "unavailable"
        ELSE IF IncludesAny(lowerSummary, AvailableKeywords) THEN "available"
        ELSE "school")

\* mutant: the fallback is the grid's default instead of school
detectStatusDefaultCompany(summary) ==
    With(ToLower(summary), LAMBDA lowerSummary :
        IF IncludesAny(lowerSummary, VacationKeywords) THEN "vacation"
        ELSE IF IncludesAny(lowerSummary, SchoolKeywords) THEN "school"
        ELSE IF IncludesAny(lowerSummary, UnavailableKeywords) THEN "unavailable"
        ELSE IF IncludesAny(lowerSummary, AvailableKeywords) THEN "available"
        ELSE "company")

detectStatusFromSummary(summary) ==
    With(ToLower(summary), LAMBDA lowerSummary :
        IF IncludesAny(lowerSummary, VacationKeywords) THEN "vacation"
        ELSE IF IncludesAny(lowerSummary, SchoolKeywords) THEN "school"
        ELSE IF IncludesAny(lowerSummary, UnavailableKeywords) THEN "unavailable"
        ELSE IF IncludesAny(lowerSummary, AvailableKeywords) THEN "available"
        ELSE "school")

\* ------------------------------------------------------------------ numbers

DigitChars == "0123456789"

IsDigit(c) == \E i \in 1..10 : SubSeq(DigitChars, i, i) = c

DigitValue(c) == (CHOOSE i \in 1..10 : SubSeq(DigitChars, i, i) = c) - 1

IsDigits(s) == Len(s) > 0 /\ \A i \in 1..Len(s) : IsDigit(SubSeq(s, i, i))

RECURSIVE DigitsValue(_)
DigitsValue(s) ==
    IF Len(s) = 0 THEN 0
    ELSE 10 * DigitsValue(SubSeq(s, 1, Len(s) - 1)) + DigitValue(SubSeq(s, Len(s), Len(s)))

\* Number(text): surrounding white space is dropped, the empty text is 0, a run
\* of decimal digits is its value, any other text of the inputs used here is NaN
ToNumber(s) ==
    With(Trim(s), LAMBDA t :
        IF Len(t) = 0 THEN Num(0)
        ELSE IF IsDigits(t) THEN Num(DigitsValue(t))
        ELSE NaN)

\* String(n) for an integer n >= 0
RECURSIVE NatToString(_)
NatToString(n) ==
    IF n < 10 THEN SubSeq(DigitChars, n + 1, n + 1)
    ELSE NatToString(n \div 10) \o SubSeq(DigitChars, (n % 10) + 1, (n % 10) + 1)

Pad2(n) == IF n < 10 THEN "0" \o NatToString(n) ELSE NatToString(n)

\* ------------------------------------------------------------------ dates

millisecondsPerDay == 86400000

\* days from 1970-01-01 to the civil day y-m-d (m in 1..12), proleptic Gregorian
DaysFromCivil(y, m, d) ==
    LET yy == IF m <= 2 THEN y - 1 ELSE y
        era == yy \div 400
        yoe == yy - era * 400
        mp == IF m > 2 THEN m - 3 ELSE m + 9
        doy == (153 * mp + 2) \div 5 + d - 1
        doe == yoe * 365 + yoe \div 4 - yoe \div 100 + doy
    IN era * 146097 + doe - 719468

\* the civil day [y, m, d] of a day count
CivilFromDays(z) ==
    LET zz == z + 719468
        era == zz \div 146097
        doe == zz - era * 146097
        yoe == (doe - doe \div 1460 + doe \div 36524 - doe \div 146096) \div 365
        doy == doe - (365 * yoe + yoe \div 4 - yoe \div 100)
        mp == (5 * doy + 2) \div 153
        d == doy - (153 * mp + 2) \div 5 + 1
        m == IF mp < 10 THEN mp + 3 ELSE mp - 9
    IN [y |-> IF m <= 2 THEN yoe + era * 400 + 1 ELSE yoe + era * 400, m |-> m, d |-> d]

\* new Date(year, monthIndex, day): local midnight; a NaN part gives an Invalid
\* Date; years 0..99 mean 1900..1999; month and day overflow carry over
NewDate(year, monthIndex, day) ==
    IF year.nan \/ monthIndex.nan \/ day.nan THEN InvalidDate
    ELSE LET fy == IF year.v >= 0 /\ year.v <= 99 THEN 1900 + year.v ELSE year.v
             ym == fy + monthIndex.v \div 12
             mn == monthIndex.v % 12
         IN [day |-> DaysFromCivil(ym, mn + 1, 1) + day.v - 1, ms |-> 0]

\* the calendar day (getFullYear, getMonth() + 1, getDate) of a Date
CivilOf(date) == CivilFromDays(date.day)

\* date-fns startOfDay / endOfDay
startOfDay(date) == [day |-> date.day, ms |-> 0]
endOfDay(date) == [day |-> date.day, ms |-> millisecondsPerDay - 1]

\* isNaN(date.getTime())
IsInvalidDate(date) == date = InvalidDate

\* date < date
DateBefore(a, b) == a.day < b.day \/ (a.day = b.day /\ a.ms < b.ms)

\* Date.prototype.toLocaleDateString('fr-FR'): DD/MM/YYYY
toLocaleDateStringFR(date) ==
    With(CivilOf(date), LAMBDA c : Pad2(c.d) \o "/" \o Pad2(c.m) \o "/" \o NatToString(c.y))

\* mutant: the epoch is taken to be 1899-12-31
excelDateEpochDec31(excelDate) ==
    LET excelEpoch == NewDate(Num(1899), Num(11), Num(31))
    IN [day |-> excelEpoch.day + excelDate, ms |-> excelEpoch.ms]

\* excelDate is a whole number of days, so excelDate * millisecondsPerDay moves
\* the epoch by excelDate days and leaves its time of day
excelDateToJSDate(excelDate) ==
    LET excelEpoch == NewDate(Num(1899), Num(11), Num(30))
    IN [day |-> excelEpoch.day + excelDate, ms |-> excelEpoch.ms]

\* ------------------------------------------------------------------ parse results

\* mutant: a failure result without its errors
FailureNoErrors(errors, warnings) ==
    [success |-> FALSE, events |-> <<>>, errors |-> <<>>, warnings |-> warnings]

\* CalendarParseResult; an absent errors or warnings list is the empty one
Failure(errors, warnings) ==
    [success |-> FALSE, events |-> <<>>, errors |-> errors, warnings |-> warnings]

Success(events, warnings) ==
    [success |-> TRUE, events |-> events, errors |-> <<>>, warnings |-> warnings]

\* an exception that left a function body: the value of error.message
Thrown(message) == [thrown |-> TRUE, message |-> message]
IsThrown(r) == "thrown" \in DOMAIN r

\* mutant: the dates of an event are stored as decoded, not normalised
EventAsDecoded(member, startDate, endDate, status, note) ==
    [memberId |-> member, startDate |-> startDate, endDate |-> endDate,
     status |-> status, note |-> note, isImported |-> TRUE]

\* the event stamped with a fixed member instead of the caller's
EventOfFixedMember(member, startDate, endDate, status, note) ==
    [memberId |-> "member-123", startDate |-> startOfDay(startDate),
     endDate |-> endOfDay(endDate), status |-> status, note |-> note,
     isImported |-> TRUE]

\* CalendarEvent (the id, a time stamp and a random suffix, is left out)
Event(member, startDate, endDate, status, note) ==
    [memberId |-> member, startDate |-> startOfDay(startDate),
     endDate |-> endOfDay(endDate), status |-> status, note |-> note,
     isImported |-> TRUE]

\* the accumulator of a record loop
NoRecords == [events |-> <<>>, warnings |-> <<>>]
PushEvent(acc, e) == [acc EXCEPT !.events = Append(@, e)]
PushWarning(acc, w) == [acc EXCEPT !.warnings = Append(@, w)]

\* a property ICAL.Event does not have
Missing == [missing |-> TRUE]

\* ------------------------------------------------------------------ parseICSFile

\* event.summary || 'Sans titre'
SummaryOrUntitled(summary) == IF summary = "" THEN "Sans titre" ELSE summary

\* mutant: a VEVENT without end date ends when it starts
ICSEventEndDefaultsToStart(acc, vevent, member) ==
    IF vevent.throws THEN
        PushWarning(acc, "Événement ignoré (erreur de traitement): "
                         \o SummaryOrUntitled(vevent.summary))
    ELSE IF vevent.startDate = Missing THEN
        PushWarning(acc, "Événement ignoré (dates manquantes): "
                         \o SummaryOrUntitled(vevent.summary))
    ELSE With(IF vevent.endDate = Missing THEN vevent.startDate ELSE vevent.endDate,
              LAMBDA endDate :
        IF IsInvalidDate(vevent.startDate) \/ IsInvalidDate(endDate) THEN
            PushWarning(acc, "Événement ignoré (erreur de date): "
                             \o SummaryOrUntitled(vevent.summary))
        ELSE IF DateBefore(endDate, vevent.startDate) THEN
            PushWarning(acc, "Événement ignoré (date de fin avant date de début): "
                             \o SummaryOrUntitled(vevent.summary))
        ELSE
            PushEvent(acc, Event(member, vevent.startDate, endDate,
                                 detectStatusFromSummary(vevent.summary), vevent.summary)))

\* mutant: no test for an end date before the start date
ICSEventKeepsInverted(acc, vevent, member) ==
    IF vevent.throws THEN
        PushWarning(acc, "Événement ignoré (erreur de traitement): Sans titre")
    ELSE IF vevent.startDate = Missing \/ vevent.endDate = Missing THEN
        PushWarning(acc, "Événement ignoré (dates manquantes): Sans titre")
    ELSE IF IsInvalidDate(vevent.startDate) \/ IsInvalidDate(vevent.endDate) THEN
        PushWarning(acc, "Événement ignoré (erreur de date): Sans titre")
    ELSE
        PushEvent(acc, Event(member, vevent.startDate, vevent.endDate,
                             detectStatusFromSummary(vevent.summary), vevent.summary))

\* one turn of the loop over the VEVENTs.  vevent is what the ICAL.Event
\* wrapper gives: startDate and endDate (Missing, or the Date of toJSDate()),
\* summary ("" when absent), and throws when building or reading it throws
ICSEvent(acc, vevent, member) ==
    IF vevent.throws THEN
        PushWarning(acc, "Événement ignoré (erreur de traitement): "
                         \o SummaryOrUntitled(vevent.summary))
    ELSE IF vevent.startDate = Missing \/ vevent.endDate = Missing THEN
        PushWarning(acc, "Événement ignoré (dates manquantes): "
                         \o SummaryOrUntitled(vevent.summary))
    ELSE IF IsInvalidDate(vevent.startDate) \/ IsInvalidDate(vevent.endDate) THEN
        PushWarning(acc, "Événement ignoré (erreur de date): "
                         \o SummaryOrUntitled(vevent.summary))
    ELSE IF DateBefore(vevent.endDate, vevent.startDate) THEN
        PushWarning(acc, "Événement ignoré (date de fin avant date de début): "
                         \o SummaryOrUntitled(vevent.summary))
    ELSE
        PushEvent(acc, Event(member, vevent.startDate, vevent.endDate,
                             detectStatusFromSummary(vevent.summary), vevent.summary))

RECURSIVE ICSEvents(_, _, _)
ICSEvents(acc, vevents, member) ==
    IF vevents = <<>> THEN acc
    ELSE ICSEvents(ICSEvent(acc, Head(vevents), member), Tail(vevents), member)

\* the message of the error ICAL.parse throws on a text that is no iCalendar
ICALParseMessage == "invalid line (no token \";\" or \":\")"

\* mutant: no test for an empty event list before the success result
parseICSFileBodyNoEmptyTest(content, member) ==
    IF content.kind = "unreadable" THEN Thrown(content.message)
    ELSE IF Len(Trim(content.text)) = 0 THEN Failure(<<"Le fichier est vide">>, <<>>)
    ELSE IF content.kind # "ics" THEN
        Failure(<<"Format ICS invalide: " \o ICALParseMessage>>, <<>>)
    ELSE IF Len(content.vevents) = 0 THEN
        Failure(<<"Aucun événement trouvé dans le fichier ICS">>, <<>>)
    ELSE With(ICSEvents(NoRecords, content.vevents, member), LAMBDA acc :
             Success(acc.events, acc.warnings))

\* mutant: when every VEVENT was skipped the warnings are not returned
parseICSFileBodyDropsWarnings(content, member) ==
    IF content.kind = "unreadable" THEN Thrown(content.message)
    ELSE IF Len(Trim(content.text)) = 0 THEN Failure(<<"Le fichier est vide">>, <<>>)
    ELSE IF content.kind # "ics" THEN
        Failure(<<"Format ICS invalide: " \o ICALParseMessage>>, <<>>)
    ELSE IF Len(content.vevents) = 0 THEN
        Failure(<<"Aucun événement trouvé dans le fichier ICS">>, <<>>)
    ELSE With(ICSEvents(NoRecords, content.vevents, member), LAMBDA acc :
             IF Len(acc.events) = 0
             THEN Failure(<<"Aucun événement valide trouvé">>, <<>>)
             ELSE Success(acc.events, acc.warnings))

\* the try block of parseICSFile, from the resolution of file.text() on
parseICSFileBody(content, member) ==
    IF content.kind = "unreadable" THEN Thrown(content.message)
    ELSE IF Len(Trim(content.text)) = 0 THEN Failure(<<"Le fichier est vide">>, <<>>)
    ELSE IF content.kind # "ics" THEN
        Failure(<<"Format ICS invalide: " \o ICALParseMessage>>, <<>>)
    ELSE IF Len(content.vevents) = 0 THEN
        Failure(<<"Aucun événement trouvé dans le fichier ICS">>, <<>>)
    ELSE With(ICSEvents(NoRecords, content.vevents, member), LAMBDA acc :
             IF Len(acc.events) = 0
             THEN Failure(<<"Aucun événement valide trouvé">>, acc.warnings)
             ELSE Success(acc.events, acc.warnings))

\* mutant: no catch-all around the body
parseICSFileNoCatch(content, member) == parseICSFileBody(content, member)

parseICSFile(content, member) ==
    With(parseICSFileBody(content, member), LAMBDA r :
        IF IsThrown(r)
        THEN Failure(<<"Erreur lors de la lecture du fichier: " \o r.message>>, <<>>)
        ELSE r)

\* ------------------------------------------------------------------ new Date(text)

IsDay31(n) == n >= 1 /\ n <= 31
IsMonth12(n) == n >= 1 /\ n <= 12

\* new Date(text) for the texts the inputs use: an ISO date YYYY-MM-DD with a
\* month 1..12 and a day 1..31 is midnight UTC of that day (a day past the end
\* of the month carries over); every other text is an Invalid Date.  The local
\* zone is taken to be UTC, so the Date is local midnight too.
ParseDate(text) ==
    IF /\ Len(text) = 10
       /\ SubSeq(text, 5, 5) = "-" /\ SubSeq(text, 8, 8) = "-"
       /\ IsDigits(SubSeq(text, 1, 4)) /\ IsDigits(SubSeq(text, 6, 7))
       /\ IsDigits(SubSeq(text, 9, 10))
       /\ IsMonth12(DigitsValue(SubSeq(text, 6, 7)))
       /\ IsDay31(DigitsValue(SubSeq(text, 9, 10)))
    THEN [day |-> DaysFromCivil(DigitsValue(SubSeq(text, 1, 4)),
                                DigitsValue(SubSeq(text, 6, 7)), 1)
                  + DigitsValue(SubSeq(text, 9, 10)) - 1,
          ms |-> 0]
    ELSE InvalidDate

\* ------------------------------------------------------------------ parseCSVFile

\* text.split(/\r?\n/): split at "\n", a "\r" right before the "\n" goes with it
StripCR(piece) ==
    IF Len(piece) > 0 /\ SubSeq(piece, Len(piece), Len(piece)) = "\r"
    THEN SubSeq(piece, 1, Len(piece) - 1)
    ELSE piece

SplitLines(text) ==
    With(Split(text, "\n"), LAMBDA pieces :
        [i \in 1..Len(pieces) |-> IF i < Len(pieces) THEN StripCR(pieces[i]) ELSE pieces[i]])

\* s.replace(/^"|"$/g, ''): drop one leading and one trailing double quote
StripQuotes(s) ==
    LET a == IF Len(s) > 0 /\ SubSeq(s, 1, 1) = "\"" THEN SubSeq(s, 2, Len(s)) ELSE s
    IN IF Len(a) > 0 /\ SubSeq(a, Len(a), Len(a)) = "\""
       THEN SubSeq(a, 1, Len(a) - 1)
       ELSE a

\* line.split(',').map(v => v.trim().replace(/^"|"$/g, ''))
CSVCells(line) ==
    With(Split(line, ","), LAMBDA pieces :
        [i \in 1..Len(pieces) |-> StripQuotes(Trim(pieces[i]))])

NonBlank(line) == Len(Trim(line)) > 0

\* a row object: the sequence of its <<key, value>> pairs in the order the keys
\* were first set; setting a key again overwrites its value
RECURSIVE SetKey(_, _, _)
SetKey(row, key, value) ==
    IF row = <<>> THEN <<[key |-> key, value |-> value]>>
    ELSE IF Head(row).key = key THEN <<[key |-> key, value |-> value]>> \o Tail(row)
    ELSE <<Head(row)>> \o SetKey(Tail(row), key, value)

\* headers.forEach((header, index) => row[header] = values[index] || '')
RECURSIVE CSVRow(_, _, _, _)
CSVRow(row, headers, values, index) ==
    IF index > Len(headers) THEN row
    ELSE CSVRow(SetKey(row, headers[index],
                       IF index <= Len(values) THEN values[index] ELSE ""),
                headers, values, index + 1)

parseSimpleCSV(text) ==
    With(SelectSeq(SplitLines(text), NonBlank), LAMBDA lines :
        IF Len(lines) = 0 THEN <<>>
        ELSE With(CSVCells(lines[1]), LAMBDA headers :
                 [i \in 1..(Len(lines) - 1) |->
                     CSVRow(<<>>, headers, CSVCells(lines[i + 1]), 1)]))

\* row[name]; "" stands for undefined as well: every use tests only truthiness
RowGet(row, name) ==
    IF \E i \in 1..Len(row) : row[i].key = name
    THEN row[CHOOSE i \in 1..Len(row) : row[i].key = name].value
    ELSE ""

\* the first key of the row equal to name when lower-cased, or 0
KeyIgnoringCase(row, name) ==
    IF \E i \in 1..Len(row) : ToLower(row[i].key) = ToLower(name)
    THEN CHOOSE i \in 1..Len(row) :
             /\ ToLower(row[i].key) = ToLower(name)
             /\ \A j \in 1..(i - 1) : ToLower(row[j].key) # ToLower(name)
    ELSE 0

\* mutant: a synonym whose column is empty in the row is passed over
RECURSIVE getCSVValueSkipsEmpty(_, _)
getCSVValueSkipsEmpty(row, possibleNames) ==
    IF possibleNames = <<>> THEN ""
    ELSE LET name == Head(possibleNames) IN
         IF RowGet(row, name) # "" THEN RowGet(row, name)
         ELSE IF KeyIgnoringCase(row, name) # 0 /\ row[KeyIgnoringCase(row, name)].value # ""
              THEN row[KeyIgnoringCase(row, name)].value
              ELSE getCSVValueSkipsEmpty(row, Tail(possibleNames))

\* "" stands for undefined as well: every use tests only truthiness
RECURSIVE getCSVValue(_, _)
getCSVValue(row, possibleNames) ==
    IF possibleNames = <<>> THEN ""
    ELSE LET name == Head(possibleNames) IN
         IF RowGet(row, name) # "" THEN RowGet(row, name)
         ELSE IF KeyIgnoringCase(row, name) # 0
              THEN row[KeyIgnoringCase(row, name)].value
              ELSE getCSVValue(row, Tail(possibleNames))

CSVStartNames ==
    <<"Date début", "Date de début", "Start Date", "Date", "date_debut", "Début", "debut">>
CSVEndNames == <<"Date fin", "Date de fin", "End Date", "date_fin", "Fin", "fin">>
CSVTypeNames ==
    <<"Type", "type", "Statut", "statut", "Status", "status", "État", "etat">>

\* mutant: an absent value has no default
OrElseNoDefault(value, default) == value

OrElse(value, default) == IF value = "" THEN default ELSE value

Ligne(rowNumber, message) == "Ligne " \o NatToString(rowNumber) \o ": " \o message

\* mutant: a row whose end date precedes its start date is dropped silently
CSVRecordSilentInverted(acc, row, index, member) ==
    LET rowNumber == index + 2 IN
    With(getCSVValue(row, CSVStartNames), LAMBDA dateDebutValue :
        IF dateDebutValue = "" THEN
            PushWarning(acc, Ligne(rowNumber, "Date de début manquante"))
        ELSE
    With(OrElse(getCSVValue(row, CSVEndNames), dateDebutValue), LAMBDA dateFinValue :
    With(OrElse(getCSVValue(row, CSVTypeNames), "école"), LAMBDA typeValue :
    With(ParseDate(dateDebutValue), LAMBDA startDate :
    With(ParseDate(dateFinValue), LAMBDA endDate :
        IF IsInvalidDate(startDate) \/ IsInvalidDate(endDate) THEN
            PushWarning(acc, Ligne(rowNumber, "Date invalide"))
        ELSE IF DateBefore(endDate, startDate) THEN acc
        ELSE
            PushEvent(acc, Event(member, startDate, endDate,
                                 detectStatusFromSummary(typeValue), typeValue)))))))

\* the callback of rows.forEach
CSVRecord(acc, row, index, member) ==
    LET rowNumber == index + 2 IN
    With(getCSVValue(row, CSVStartNames), LAMBDA dateDebutValue :
        IF dateDebutValue = "" THEN
            PushWarning(acc, Ligne(rowNumber, "Date de début manquante"))
        ELSE
    With(OrElse(getCSVValue(row, CSVEndNames), dateDebutValue), LAMBDA dateFinValue :
    With(OrElse(getCSVValue(row, CSVTypeNames), "école"), LAMBDA typeValue :
    With(ParseDate(dateDebutValue), LAMBDA startDate :
    With(ParseDate(dateFinValue), LAMBDA endDate :
        IF IsInvalidDate(startDate) \/ IsInvalidDate(endDate) THEN
            PushWarning(acc, Ligne(rowNumber, "Date invalide"))
        ELSE IF DateBefore(endDate, startDate) THEN
            PushWarning(acc, Ligne(rowNumber, "Date de fin avant date de début"))
        ELSE
            PushEvent(acc, Event(member, startDate, endDate,
                                 detectStatusFromSummary(typeValue), typeValue)))))))

\* rows.forEach((row, index) => ...): index counts from 0
RECURSIVE CSVRecords(_, _, _, _)
CSVRecords(acc, rows, index, member) ==
    IF index >= Len(rows) THEN acc
    ELSE CSVRecords(CSVRecord(acc, rows[index + 1], index, member), rows, index + 1, member)

\* the try block of parseCSVFile, from the resolution of file.text() on
parseCSVFileBody(content, member) ==
    IF content.kind = "unreadable" THEN Thrown(content.message)
    ELSE IF Len(Trim(content.text)) = 0
    THEN Failure(<<"Le fichier CSV est vide">>, <<>>)
    ELSE With(parseSimpleCSV(content.text), LAMBDA rows :
             IF Len(rows) = 0
             THEN Failure(<<"Aucune donnée trouvée dans le fichier CSV">>, <<>>)
             ELSE With(CSVRecords(NoRecords, rows, 0, member), LAMBDA acc :
                      IF Len(acc.events) = 0
                      THEN Failure(<<"Aucun événement valide trouvé dans le fichier CSV">>,
                                   acc.warnings)
                      ELSE Success(acc.events, acc.warnings)))

parseCSVFile(content, member) ==
    With(parseCSVFileBody(content, member), LAMBDA r :
        IF IsThrown(r) THEN Failure(<<"Erreur parsing CSV: " \o r.message>>, <<>>) ELSE r)

\* ------------------------------------------------------------------ Excel cells

\* cell.value, by shape
Null == [t |-> "null"]
Str(s) == [t |-> "string", v |-> s]
NumCell(n) == [t |-> "number", n |-> n]
DateCell(date) == [t |-> "date", date |-> date]
RichText(segments) == [t |-> "richText", richText |-> segments]
Formula(resultText) == [t |-> "formula", v |-> resultText]
\* a hyperlink cell whose text is itself a rich-text object
LinkRich == [t |-> "hyperlink"]

\* a worksheet is the sequence of its rows, a row the sequence of its cells
CellAt(row, col) == IF col >= 1 /\ col <= Len(row) THEN row[col] ELSE Null
hasValues(row) == \E c \in 1..Len(row) : row[c] # Null
rowCount(worksheet) == Len(worksheet)
getRow(worksheet, rowNum) ==
    IF rowNum >= 1 /\ rowNum <= Len(worksheet) THEN worksheet[rowNum] ELSE <<>>

\* what extractCellText returns: a string s, or (isString FALSE) an object
Text(s) == [isString |-> TRUE, s |-> s]
ObjectText == [isString |-> FALSE, s |-> "[object Object]"]

RECURSIVE Join(_)
Join(segments) == IF segments = <<>> THEN "" ELSE Head(segments) \o Join(Tail(segments))

\* !cell.value
Falsy(cell) ==
    \/ cell.t = "null"
    \/ (cell.t = "string" /\ cell.v = "")
    \/ (cell.t = "number" /\ cell.n = 0)

extractCellText(cell) ==
    IF Falsy(cell) THEN Text("")
    ELSE CASE cell.t = "string" -> Text(cell.v)
           [] cell.t = "number" -> Text(NatToString(cell.n))
           [] cell.t = "date" -> Text(toLocaleDateStringFR(cell.date))
           [] cell.t = "richText" -> Text(Join(cell.richText))
           [] cell.t = "formula" -> Text(cell.v)
           [] cell.t = "hyperlink" -> ObjectText

\* ------------------------------------------------------------------ header scan

\* the cells row.eachCell visits: those with a value, by column number
RECURSIVE HeaderMapFrom(_, _, _)
HeaderMapFrom(map, row, col) ==
    IF col > Len(row) THEN map
    ELSE IF row[col] = Null THEN HeaderMapFrom(map, row, col + 1)
    ELSE With(Trim(ToLower(extractCellText(row[col]).s)), LAMBDA text :
             IF text # "" /\ text # "[object object]"
             THEN HeaderMapFrom(SetKey(map, text, col), row, col + 1)
             ELSE HeaderMapFrom(map, row, col + 1))

\* extractCellText(cell).toLowerCase() on a cell whose text is an object throws
HeaderRowThrows(row) ==
    \E col \in 1..Len(row) : row[col] # Null /\ ~extractCellText(row[col]).isString

Keys(map) == {map[i].key : i \in 1..Len(map)}

\* the three criteria of a header row
IsHeaderRow(tempMap) ==
    LET uniqueValues == Cardinality(Keys(tempMap))
        hasSemaineColumn ==
            \E col \in Keys(tempMap) :
                \/ Includes(col, "semaine") \/ Includes(col, "week")
                \/ col = "n°" \/ Includes(col, "n° semaine")
        hasDateColumn ==
            \E col \in Keys(tempMap) : Includes(col, "date") \/ Includes(col, "lundi")
        hasWeekdayColumns == \E col \in Keys(tempMap) : col \in {"lu", "ma", "me", "je", "ve"}
    IN (hasSemaineColumn /\ hasDateColumn) \/ hasWeekdayColumns \/ uniqueValues > 3

HeaderScanRows == 10

Min(a, b) == IF a <= b THEN a ELSE b

\* mutant: the scan goes on to the last row of the sheet
RECURSIVE ScanHeaderAllRows(_, _)
ScanHeaderAllRows(worksheet, rowNum) ==
    IF rowNum > rowCount(worksheet)
    THEN [columnMap |-> <<>>, headerRowNumber |-> 1, dataStartRow |-> 2]
    ELSE IF HeaderRowThrows(getRow(worksheet, rowNum))
    THEN Thrown("extractCellText(...).toLowerCase is not a function")
    ELSE With(HeaderMapFrom(<<>>, getRow(worksheet, rowNum), 1), LAMBDA tempMap :
             IF IsHeaderRow(tempMap)
             THEN [columnMap |-> tempMap, headerRowNumber |-> rowNum,
                   dataStartRow |-> rowNum + 1]
             ELSE ScanHeaderAllRows(worksheet, rowNum + 1))

\* mutant: the rows after the header are parsed from the header row on
RECURSIVE ScanHeaderDataAtHeader(_, _)
ScanHeaderDataAtHeader(worksheet, rowNum) ==
    IF rowNum > Min(HeaderScanRows, rowCount(worksheet))
    THEN [columnMap |-> <<>>, headerRowNumber |-> 1, dataStartRow |-> 2]
    ELSE IF HeaderRowThrows(getRow(worksheet, rowNum))
    THEN Thrown("extractCellText(...).toLowerCase is not a function")
    ELSE With(HeaderMapFrom(<<>>, getRow(worksheet, rowNum), 1), LAMBDA tempMap :
             IF IsHeaderRow(tempMap)
             THEN [columnMap |-> tempMap, headerRowNumber |-> rowNum,
                   dataStartRow |-> rowNum]
             ELSE ScanHeaderDataAtHeader(worksheet, rowNum + 1))

\* the loop over the first rows: [found, columnMap, dataStartRow], or Thrown
RECURSIVE ScanHeader(_, _)
ScanHeader(worksheet, rowNum) ==
    IF rowNum > Min(HeaderScanRows, rowCount(worksheet))
    THEN [columnMap |-> <<>>, headerRowNumber |-> 1, dataStartRow |-> 2]
    ELSE IF HeaderRowThrows(getRow(worksheet, rowNum))
    THEN Thrown("extractCellText(...).toLowerCase is not a function")
    ELSE With(HeaderMapFrom(<<>>, getRow(worksheet, rowNum), 1), LAMBDA tempMap :
             IF IsHeaderRow(tempMap)
             THEN [columnMap |-> tempMap, headerRowNumber |-> rowNum,
                   dataStartRow |-> rowNum + 1]
             ELSE ScanHeader(worksheet, rowNum + 1))

\* ------------------------------------------------------------------ parseWeeklyCalendarFormat

IsDateKey(key) == Includes(key, "date") \/ Includes(key, "lundi")

\* Array.from(columnMap.entries()).find(([key]) => IsDateKey(key))?.[1]: the
\* column of the first such key in insertion order, 0 for undefined
RECURSIVE FindDateColumn(_)
FindDateColumn(map) ==
    IF map = <<>> THEN 0
    ELSE IF IsDateKey(Head(map).key) THEN Head(map).value
    ELSE FindDateColumn(Tail(map))

dayMapping == <<"lu", "ma", "me", "je", "ve", "sa", "di">>

\* mutant: the weekday columns in the order of the header row, not sorted
RECURSIVE WeekdayColumnsUnsorted(_, _)
WeekdayColumnsUnsorted(map, dayOffset) ==
    IF map = <<>> THEN <<>>
    ELSE (IF \E d \in 1..Len(dayMapping) : dayMapping[d] = Head(map).key
          THEN <<[day |-> Head(map).key, colIndex |-> Head(map).value,
                  dayOffset |->
                      (CHOOSE d \in 1..Len(dayMapping) : dayMapping[d] = Head(map).key) - 1]>>
          ELSE <<>>)
         \o WeekdayColumnsUnsorted(Tail(map), dayOffset)

\* the weekday columns sorted by dayOffset: the column of each day that has one
RECURSIVE WeekdayColumnsFrom(_, _)
WeekdayColumnsFrom(map, dayOffset) ==
    IF dayOffset > 6 THEN <<>>
    ELSE LET day == dayMapping[dayOffset + 1] IN
         (IF day \in Keys(map)
          THEN <<[day |-> day, colIndex |-> RowGet(map, day), dayOffset |-> dayOffset]>>
          ELSE <<>>)
         \o WeekdayColumnsFrom(map, dayOffset + 1)

\* mutant: only the exact text "7" means school
GridStatusOnlySeven(cellValue) ==
    IF cellValue = "7" THEN "school"
    ELSE IF Includes(ToLower(cellValue), "férié") \/ Includes(ToLower(cellValue), "ferie")
    THEN "vacation"
    ELSE IF Includes(ToLower(cellValue), "vacances") \/ Includes(ToLower(cellValue), "exam")
    THEN "vacation"
    ELSE IF Includes(ToLower(cellValue), "disponible") THEN "available"
    ELSE IF Includes(ToLower(cellValue), "indisponible") THEN "unavailable"
    ELSE "company"

\* the if / else if chain on the text of a weekday cell
GridStatus(cellValue) ==
    IF cellValue = "7" \/ cellValue = "7.00" THEN "school"
    ELSE IF Includes(ToLower(cellValue), "férié") \/ Includes(ToLower(cellValue), "ferie")
    THEN "vacation"
    ELSE IF Includes(ToLower(cellValue), "vacances") \/ Includes(ToLower(cellValue), "exam")
    THEN "vacation"
    ELSE IF Includes(ToLower(cellValue), "disponible") THEN "available"
    ELSE IF Includes(ToLower(cellValue), "indisponible") THEN "unavailable"
    ELSE "company"

\* new Date(mondayDate); setDate(getDate() + dayOffset)
AddDays(date, n) == [day |-> date.day + n, ms |-> date.ms]

\* the loop over the weekday columns of one row; a cell whose text is an object
\* makes cellValue.toLowerCase() throw: the row's catch adds a warning and the
\* events already pushed stay
RECURSIVE WeeklyDays(_, _, _, _, _, _)
WeeklyDays(acc, row, rowNum, weekdayColumns, mondayDate, member) ==
    IF weekdayColumns = <<>> THEN acc
    ELSE With(Head(weekdayColumns), LAMBDA col :
         With(extractCellText(CellAt(row, col.colIndex)), LAMBDA cellValue :
         With(AddDays(mondayDate, col.dayOffset), LAMBDA currentDate :
             IF ~cellValue.isString
             THEN PushWarning(acc, Ligne(rowNum,
                      "Erreur de parsing - TypeError: cellValue.toLowerCase is not a function"))
             ELSE WeeklyDays(
                      PushEvent(acc, Event(member, currentDate, currentDate,
                                           GridStatus(cellValue.s), cellValue.s)),
                      row, rowNum, Tail(weekdayColumns), mondayDate, member))))

\* one turn of the loop over the week rows
WeeklyRow(acc, row, rowNum, dateColIndex, weekdayColumns, member) ==
    IF ~hasValues(row) THEN acc
    ELSE
    With(extractCellText(CellAt(row, dateColIndex)), LAMBDA dateText :
        IF ~dateText.isString THEN
            PushWarning(acc, Ligne(rowNum,
                "Erreur de parsing - TypeError: dateText.includes is not a function"))
        ELSE IF \/ dateText.s = ""
                \/ Includes(dateText.s, "synthèse") \/ Includes(dateText.s, "période")
        THEN acc
        ELSE
    With(Split(dateText.s, "/"), LAMBDA dateParts :
        IF Len(dateParts) # 3 THEN
            PushWarning(acc, Ligne(rowNum,
                "Format de date invalide \"" \o dateText.s \o "\""))
        ELSE
    With(ToNumber(dateParts[2]), LAMBDA month :
    With(NewDate(ToNumber(dateParts[3]), [month EXCEPT !.v = @ - 1], ToNumber(dateParts[1])),
         LAMBDA mondayDate :
        IF IsInvalidDate(mondayDate) THEN
            PushWarning(acc, Ligne(rowNum, "Date invalide \"" \o dateText.s \o "\""))
        ELSE WeeklyDays(acc, row, rowNum, weekdayColumns, mondayDate, member)))))

RECURSIVE WeeklyRows(_, _, _, _, _, _)
WeeklyRows(acc, worksheet, rowNum, dateColIndex, weekdayColumns, member) ==
    IF rowNum > rowCount(worksheet) THEN acc
    ELSE WeeklyRows(
             WeeklyRow(acc, getRow(worksheet, rowNum), rowNum, dateColIndex,
                       weekdayColumns, member),
             worksheet, rowNum + 1, dateColIndex, weekdayColumns, member)

parseWeeklyCalendarFormat(worksheet, columnMap, dataStartRow, member) ==
    With(FindDateColumn(columnMap), LAMBDA dateColIndex :
    With(WeekdayColumnsFrom(columnMap, 0), LAMBDA weekdayColumns :
        IF dateColIndex = 0 \/ Len(weekdayColumns) = 0 THEN
            Failure(<<"Format calendrier hebdomadaire invalide : colonnes date ou jours manquantes">>,
                    <<>>)
        ELSE
    With(WeeklyRows(NoRecords, worksheet, dataStartRow, dateColIndex, weekdayColumns, member),
         LAMBDA acc :
        IF Len(acc.events) = 0
        THEN Failure(<<"Aucun événement trouvé dans le calendrier hebdomadaire">>,
                     acc.warnings)
        ELSE Success(acc.events, acc.warnings))))

\* ------------------------------------------------------------------ parseExcelFile

\* getCellValue: the raw value of the column of the first name the header has
RECURSIVE getCellValue(_, _, _)
getCellValue(row, possibleNames, columnMap) ==
    IF possibleNames = <<>> THEN Null
    ELSE With(Trim(ToLower(Head(possibleNames))), LAMBDA normalizedName :
             IF normalizedName \in Keys(columnMap)
             THEN CellAt(row, RowGet(columnMap, normalizedName))
             ELSE getCellValue(row, Tail(possibleNames), columnMap))

ExcelStartNames ==
    <<"date début", "date de début", "start date", "date", "date_debut", "début", "debut">>
ExcelEndNames == <<"date fin", "date de fin", "end date", "date_fin", "fin">>
ExcelTypeNames == <<"type", "statut", "status", "état", "etat">>

\* a || b on cell values
CellOr(value, default) == IF Falsy(value) THEN default ELSE value

\* String(value) of a cell value; not defined for a Date value, which no input
\* has where a text is expected
CellString(value) ==
    CASE value.t = "string" -> value.v
      [] value.t = "number" -> NatToString(value.n)
      [] value.t \in {"richText", "formula", "hyperlink"} -> "[object Object]"

\* number: serial; Date: itself; anything else: new Date(String(value))
CellDate(value) ==
    IF value.t = "number" THEN excelDateToJSDate(value.n)
    ELSE IF value.t = "date" THEN value.date
    ELSE ParseDate(CellString(value))

\* one turn of the loop over the data rows
ExcelRow(acc, row, rowNumber, columnMap, member) ==
    IF ~hasValues(row) THEN acc
    ELSE
    With(getCellValue(row, ExcelStartNames, columnMap), LAMBDA dateDebutValue :
        IF Falsy(dateDebutValue) THEN
            PushWarning(acc, Ligne(rowNumber, "Date de début manquante"))
        ELSE
    With(CellOr(getCellValue(row, ExcelEndNames, columnMap), dateDebutValue),
         LAMBDA dateFinValue :
    With(CellOr(getCellValue(row, ExcelTypeNames, columnMap), Str("école")),
         LAMBDA typeValue :
    With(CellDate(dateDebutValue), LAMBDA startDate :
    With(CellDate(dateFinValue), LAMBDA endDate :
        IF IsInvalidDate(startDate) \/ IsInvalidDate(endDate) THEN
            PushWarning(acc, Ligne(rowNumber, "Date invalide"))
        ELSE IF DateBefore(endDate, startDate) THEN
            PushWarning(acc, Ligne(rowNumber, "Date de fin avant date de début"))
        ELSE
    With(CellString(typeValue), LAMBDA typeStr :
        PushEvent(acc, Event(member, startDate, endDate,
                             detectStatusFromSummary(typeStr), typeStr))))))))

RECURSIVE ExcelRows(_, _, _, _, _)
ExcelRows(acc, worksheet, rowNumber, columnMap, member) ==
    IF rowNumber > rowCount(worksheet) THEN acc
    ELSE ExcelRows(ExcelRow(acc, getRow(worksheet, rowNumber), rowNumber, columnMap, member),
                   worksheet, rowNumber + 1, columnMap, member)

\* Array.from(columnMap.keys()).join(', ')
RECURSIVE JoinKeys(_)
JoinKeys(map) ==
    IF map = <<>> THEN ""
    ELSE IF Len(map) = 1 THEN map[1].key
    ELSE map[1].key \o ", " \o JoinKeys(Tail(map))

\* steps 5 and 6 of parseExcelFile, once the header row is found
ParseSheet(worksheet, header, member) ==
    LET columnMap == header.columnMap
        hasSemaineColumn ==
            \E col \in Keys(columnMap) :
                Includes(col, "semaine") \/ Includes(col, "week") \/ col = "n°"
        hasWeekdayColumns == \E col \in Keys(columnMap) : col \in {"lu", "ma", "me"}
        hasDateColumn ==
            \E col \in Keys(columnMap) :
                \/ Includes(col, "date") \/ Includes(col, "début")
                \/ Includes(col, "debut") \/ Includes(col, "start")
    IN IF hasSemaineColumn /\ hasWeekdayColumns THEN
           parseWeeklyCalendarFormat(worksheet, columnMap, header.dataStartRow, member)
       ELSE IF ~hasDateColumn THEN
           Failure(<<"Colonne \"date début\" ou \"date\" non trouvée. Colonnes détectées: "
                         \o JoinKeys(columnMap),
                     "Format attendu: Le fichier doit contenir une colonne \"Date début\" ou \"Date\"">>,
                   <<>>)
       ELSE With(ExcelRows(NoRecords, worksheet, header.dataStartRow, columnMap, member),
                 LAMBDA acc :
                IF Len(acc.events) = 0
                THEN Failure(<<"Aucun événement valide trouvé dans le fichier Excel">>,
                             acc.warnings)
                ELSE Success(acc.events, acc.warnings))

NoHeaderErrors ==
    <<"Aucune colonne d'en-tête valide détectée dans les 10 premières lignes.",
      "Format attendu: Le fichier doit contenir une ligne d'en-têtes avec : Date début | Date fin | Type",
      "Ou un format calendrier hebdomadaire avec : N° Semaine | Date | LU | MA | ME...">>

\* the message of the error workbook.xlsx.load throws on bytes that are no workbook
XlsxLoadMessage == "Can't find end of central directory : is this a zip file ?"

\* the try block of parseExcelFile, from the resolution of file.arrayBuffer() on
parseExcelFileBody(content, member) ==
    IF content.kind = "unreadable" THEN Thrown(content.message)
    ELSE IF content.kind # "xlsx" THEN Thrown(XlsxLoadMessage)
    ELSE IF Len(content.worksheets) = 0 THEN
        Failure(<<"Le fichier Excel ne contient aucune feuille">>, <<>>)
    ELSE With(content.worksheets[1], LAMBDA worksheet :
         With(ScanHeader(worksheet, 1), LAMBDA header :
             IF IsThrown(header) THEN header
             ELSE IF Len(header.columnMap) = 0 THEN Failure(NoHeaderErrors, <<>>)
             ELSE ParseSheet(worksheet, header, member)))

parseExcelFile(content, member) ==
    With(parseExcelFileBody(content, member), LAMBDA r :
        IF IsThrown(r) THEN Failure(<<"Erreur parsing Excel: " \o r.message>>, <<>>) ELSE r)

\* ------------------------------------------------------------------ parseCalendarFile

\* file.name.split('.').pop()?.toLowerCase()
ExtensionOf(name) ==
    With(Split(name, "."), LAMBDA pieces : ToLower(pieces[Len(pieces)]))

UnsupportedErrors(extension) ==
    <<"Format de fichier non supporté: ." \o extension,
      "Formats supportés: .ics, .xlsx, .xls, .csv">>

\* the format parser the switch calls for an extension, "none" for the default
ParserFor(extension) ==
    CASE extension = "ics" -> "parseICSFile"
      [] extension \in {"xlsx", "xls"} -> "parseExcelFile"
      [] extension = "csv" -> "parseCSVFile"
      [] OTHER -> "none"

\* mutant: a file without a known extension is tried as CSV
ParserOfDefaultCSV(name) ==
    IF ParserFor(ExtensionOf(name)) = "none" THEN "parseCSVFile"
    ELSE ParserFor(ExtensionOf(name))

ParserOf(name) == ParserFor(ExtensionOf(name))

\* the synchronous part of the call: the extension test and, for a supported
\* one, the format parser up to its first await (file.text() or
\* file.arrayBuffer() has been called)
Dispatch ==
    /\ pc = "start"
    /\ IF ExtensionOf(file.name) = "" THEN
           /\ result' = Failure(<<"Impossible de déterminer le format du fichier">>, <<>>)
           /\ pc' = "done"
           /\ UNCHANGED <<reads, invoked>>
       ELSE IF ParserOf(file.name) = "none" THEN
           /\ result' = Failure(UnsupportedErrors(ExtensionOf(file.name)), <<>>)
           /\ pc' = "done"
           /\ UNCHANGED <<reads, invoked>>
       ELSE
           /\ invoked' = ParserOf(file.name)
           /\ reads' = reads + 1
           /\ pc' = "reading"
           /\ UNCHANGED result
    /\ UNCHANGED <<file, arg, ret, memberId, appVars>>

\* await file.text() settles in parseICSFile; the rest of the function runs
ICSTextRead ==
    /\ pc = "reading" /\ invoked = "parseICSFile"
    /\ result' = parseICSFile(file.content, memberId)
    /\ pc' = "done"
    /\ UNCHANGED <<file, reads, invoked, arg, ret, memberId, appVars>>

\* await file.text() settles in parseCSVFile; the rest of the function runs
CSVTextRead ==
    /\ pc = "reading" /\ invoked = "parseCSVFile"
    /\ result' = parseCSVFile(file.content, memberId)
    /\ pc' = "done"
    /\ UNCHANGED <<file, reads, invoked, arg, ret, memberId, appVars>>

\* await file.arrayBuffer() settles in parseExcelFile: a rejection goes to the
\* catch-all, otherwise workbook.xlsx.load(buffer) is awaited
ExcelBufferRead ==
    /\ pc = "reading" /\ invoked = "parseExcelFile"
    /\ IF file.content.kind = "unreadable"
       THEN result' = parseExcelFile(file.content, memberId) /\ pc' = "done"
       ELSE pc' = "loading" /\ UNCHANGED result
    /\ UNCHANGED <<file, reads, invoked, arg, ret, memberId, appVars>>

\* await workbook.xlsx.load(buffer) settles; the rest of the function runs
ExcelWorkbookLoaded ==
    /\ pc = "loading"
    /\ result' = parseExcelFile(file.content, memberId)
    /\ pc' = "done"
    /\ UNCHANGED <<file, reads, invoked, arg, ret, memberId, appVars>>

\* ------------------------------------------------------------------ the files

RECURSIVE SeqsUpTo(_, _)
SeqsUpTo(S, n) ==
    IF n = 0 THEN {<<>>}
    ELSE LET shorter == SeqsUpTo(S, n - 1)
         IN shorter \cup {Append(q, x) : q \in shorter, x \in S}

\* file contents, by what the readers make of the bytes
Unreadable(message) == [kind |-> "unreadable", message |-> message]
PlainText(text) == [kind |-> "text", text |-> text]
ICSDocument(vevents) == [kind |-> "ics", text |-> "BEGIN:VCALENDAR", vevents |-> vevents]
Workbook(worksheets) == [kind |-> "xlsx", text |-> "PK", worksheets |-> worksheets]

Day(y, m, d) == DaysFromCivil(y, m, d)
At(y, m, d, ms) == [day |-> Day(y, m, d), ms |-> ms]

VEvent(startDate, endDate, summary) ==
    [startDate |-> startDate, endDate |-> endDate, summary |-> summary, throws |-> FALSE]

VEvents ==
    {VEvent(At(2025, 1, 13, 32400000), At(2025, 1, 17, 61200000), "Semaine École HETIC"),
     VEvent(At(2025, 1, 27, 0), At(2025, 1, 31, 0), "Vacances d'hiver"),
     VEvent(At(2025, 2, 3, 0), Missing, "Formation React"),
     VEvent(Missing, At(2025, 2, 14, 0), "Absent"),
     VEvent(At(2025, 1, 20, 0), At(2025, 1, 15, 0), "Disponible Entreprise"),
     VEvent(At(2025, 2, 10, 50400000), At(2025, 2, 10, 36000000), ""),
     VEvent(InvalidDate, At(2025, 2, 14, 0), "Réunion"),
     [startDate |-> Missing, endDate |-> Missing, summary |-> "Cours", throws |-> TRUE]}

\* the five events of test-calendar.ics, the fourth without end date
FiveVEvents ==
    <<VEvent(At(2025, 1, 13, 32400000), At(2025, 1, 17, 61200000), "Semaine École HETIC"),
      VEvent(At(2025, 1, 20, 32400000), At(2025, 1, 24, 61200000), "Disponible Entreprise"),
      VEvent(At(2025, 1, 27, 0), At(2025, 1, 31, 0), "Vacances d'hiver"),
      VEvent(At(2025, 2, 3, 32400000), Missing, "Formation React"),
      VEvent(At(2025, 2, 10, 0), At(2025, 2, 14, 0), "Absent")>>

ICSContents ==
    {Unreadable("The requested file could not be read"),
     PlainText(""), PlainText(" \n"), PlainText("Date début,Date fin,Type")}
    \cup {ICSDocument(q) : q \in SeqsUpTo(VEvents, MaxVEvents)}
    \cup {ICSDocument(FiveVEvents)}

CSVHeaderLines ==
    {"Date début,Date fin,Type", "\"date\", \"TYPE\"", "Nom,Commentaire"}

CSVDataLines ==
    {"2025-01-13,2025-01-17,École",
     "2025-01-20,2025-01-15,Entreprise",
     "invalid-date,2025-01-17,Cours",
     "2025-01-27,,Vacances",
     ",2025-01-17,Absent",
     "2025-02-03",
     "   "}

RECURSIVE JoinLines(_, _)
JoinLines(lines, eol) ==
    IF lines = <<>> THEN "" ELSE Head(lines) \o eol \o JoinLines(Tail(lines), eol)

CSVTexts ==
    {JoinLines(<<"Date début,Date fin,Type">> \o q, "\n") :
         q \in SeqsUpTo(CSVDataLines, MaxCsvLines)}
    \cup {JoinLines(<<h, l>>, eol) :
              h \in CSVHeaderLines, l \in CSVDataLines, eol \in {"\n", "\r\n"}}

CSVContents ==
    {Unreadable("The requested file could not be read"), PlainText(""), PlainText(" \r\n ")}
    \cup {PlainText(t) : t \in CSVTexts}

TitleRow == <<Str("Planning 2025")>>
BlankRow == <<>>

GenericHeader == <<Str("Nom"), Str("Date début"), Str("Date fin"), Str("Type")>>

OtherHeaders ==
    {<<Str("Date début"), Str("Date fin"), Str("Type")>>,
     <<Str("Nom"), Str("Groupe"), Str("Salle"), Str("Type")>>,
     <<Str("Semaine"), Str("LU"), Str("MA")>>}

\* rows for the header Nom | Date début | Date fin | Type
GenericRows ==
    {<<Str("A"), NumCell(45670), NumCell(45674), Str("École")>>,
     <<Str("B"), DateCell(At(2025, 1, 20, 0)), Null, Str("Vacances")>>,
     <<Str("C"), NumCell(45674), NumCell(45670), Str("Entreprise")>>,
     <<Str("D"), Str("invalid-date"), Null, Null>>,
     <<Str("E"), Null, NumCell(45674), Str("Absent")>>,
     <<Str("F"), Str("2025-02-03"), Str("2025-02-07"), Null>>,
     BlankRow}

WeeklyHeader == <<Str("N° Semaine"), Str("Date"), Str("LU"), Str("MA")>>

\* rows for the header N° Semaine | Date | LU | MA
WeeklyGridRows ==
    {<<NumCell(3), Str("13/01/2025"), Str("7"), Str("Férié")>>,
     <<NumCell(3), Str("13/01/2025"), NumCell(7), Str("Examens")>>,
     <<NumCell(3), Str("13/01/2025"), Str("7.00"), Str("Disponible")>>,
     <<NumCell(3), Str("13/01/2025"), Null, Str("Indisponible")>>,
     <<NumCell(3), Str("13/01/2025"), RichText(<<"7">>), Str("Vacances")>>,
     <<NumCell(3), Str("13/01/2025"), Str("Télétravail"), LinkRich>>,
     <<NumCell(4), DateCell(At(2025, 1, 20, 0)), Str("7"), Str("indisponible (CP)")>>,
     <<NumCell(5), Str("27-01-2025"), Str("7"), Null>>,
     <<NumCell(6), Str("aa/bb/cccc"), Str("7"), Null>>,
     <<NumCell(9), Str("32/13/2025"), Str("7"), Null>>,
     <<NumCell(7), Null, Str("7"), Null>>,
     <<Str("Total"), Str("synthèse"), NumCell(14), Null>>,
     <<NumCell(8), LinkRich, Str("7"), Null>>}

\* week headers whose day columns are the end of the week, and out of order
LateWeekHeader == <<Str("N° Semaine"), Str("Date"), Str("JE"), Str("VE")>>
ReversedHeader == <<Str("N° Semaine"), Str("Date"), Str("VE"), Str("LU")>>

SampleRows ==
    {<<Str("A"), NumCell(45670), NumCell(45674), Str("École")>>,
     <<NumCell(3), Str("13/01/2025"), Str("7"), Null>>}

\* n rows above the header: a title row, then rows without values
Preamble(n) == [i \in 1..n |-> IF i = 1 THEN TitleRow ELSE BlankRow]

Worksheets ==
    {<<GenericHeader>> \o q : q \in SeqsUpTo(GenericRows, MaxRows)}
    \cup {Preamble(n) \o <<h, r>> :
              n \in {HeaderScanRows - 1, HeaderScanRows},
              h \in {GenericHeader, WeeklyHeader},
              r \in SampleRows}
    \cup {<<WeeklyHeader>> \o q : q \in SeqsUpTo(WeeklyGridRows, MaxRows)}
    \cup {<<h, r>> : h \in OtherHeaders, r \in SampleRows}
    \cup {<<h, r>> : h \in {LateWeekHeader, ReversedHeader}, r \in WeeklyGridRows}
    \cup {pre \o <<h, r>> :
              pre \in {<<TitleRow>>, <<TitleRow, BlankRow>>, <<<<LinkRich>>>>},
              h \in {GenericHeader, WeeklyHeader} \cup OtherHeaders,
              r \in SampleRows}

\* the sheet create-excel.js writes: the three-column header and ten rows
ClassicHeader == <<Str("Date début"), Str("Date fin"), Str("Type")>>
ClassicRow(y, m, d, type) == <<DateCell(At(y, m, d, 0)), DateCell(At(y, m, d + 4, 0)), Str(type)>>
TestCalendarSheet ==
    <<ClassicHeader,
      ClassicRow(2025, 1, 13, "École"), ClassicRow(2025, 1, 20, "Entreprise"),
      ClassicRow(2025, 1, 27, "Vacances"), ClassicRow(2025, 2, 3, "Formation"),
      ClassicRow(2025, 2, 10, "Indisponible"), ClassicRow(2025, 2, 17, "École"),
      ClassicRow(2025, 2, 24, "Disponible"), ClassicRow(2025, 3, 3, "Congé"),
      ClassicRow(2025, 3, 10, "Cours HETIC"), ClassicRow(2025, 3, 17, "Travail")>>

ExcelContents ==
    {Unreadable("The requested file could not be read"), PlainText(""), Workbook(<<>>)}
    \cup {Workbook(<<w>>) : w \in Worksheets \cup {TestCalendarSheet}}

\* a content of each kind, for the file names that differ only in their spelling
SampleContents ==
    {Unreadable("The requested file could not be read"),
     PlainText("Date début,Date fin,Type\n2025-01-13,2025-01-17,École\n"),
     ICSDocument(<<VEvent(At(2025, 1, 27, 0), At(2025, 1, 31, 0), "Vacances d'hiver")>>),
     Workbook(<<<<WeeklyHeader, <<NumCell(3), Str("13/01/2025"), Str("7"), Null>>>>>>)}

OtherNames ==
    {"invalid-format.txt", "planning.pdf", "planning.ics.bak", "planning", "planning.", ""}

\* names without a '.' that spell a supported extension
BareNames == {"csv", "ICS"}

Files ==
    {[name |-> "test-calendar.ics", content |-> c] : c \in ICSContents}
    \cup {[name |-> "test-calendar.xlsx", content |-> c] : c \in ExcelContents}
    \cup {[name |-> "test-calendar.csv", content |-> c] : c \in CSVContents}
    \cup {[name |-> "PLANNING.ICS", content |-> c] :
              c \in SampleContents \ {PlainText("Date début,Date fin,Type\n2025-01-13,2025-01-17,École\n")}}
    \cup {[name |-> n, content |-> c] :
              n \in {"planning.XLS", "export.2025.Csv"},
              c \in {x \in SampleContents : x.kind \in {"unreadable", "text"}}}
    \cup {[name |-> "planning.XLS", content |-> c] : c \in {x \in SampleContents : x.kind = "xlsx"}}
    \cup {[name |-> n, content |-> c] : n \in OtherNames \cup BareNames, c \in SampleContents}

MemberIds == {"member-123"}

Init ==
    /\ file \in Files
    /\ memberId \in MemberIds
    /\ pc = "start"
    /\ result = NoResult
    /\ reads = 0
    /\ invoked = "none"
    /\ arg = 0
    /\ ret = NoResult
    /\ AppIdle

Next ==
    \/ Dispatch
    \/ ICSTextRead
    \/ CSVTextRead
    \/ ExcelBufferRead
    \/ ExcelWorkbookLoaded

Spec == Init /\ [][Next]_vars

\* ------------------------------------------------------------------ helpers called on their own

LabelFrags ==
    {"", "Vacances", "congé", "cours", "École", "HETIC", "Absent", "indisponible",
     "Disponible", "entreprise", "work", "Vacances - ", "réunion", "cours annulés"}

RECURSIVE LabelsOf(_)
LabelsOf(n) ==
    IF n = 0 THEN {""} ELSE {a \o b : a \in LabelsOf(n - 1), b \in LabelFrags}

Labels == LabelsOf(MaxFrags)

Returned(v) == [v |-> v]

Idle ==
    /\ file = NoFile /\ pc = "idle" /\ result = NoResult
    /\ reads = 0 /\ invoked = "none" /\ ret = NoResult /\ memberId = ""
    /\ AppIdle

InitText == Idle /\ arg \in Labels

CallDetectStatus ==
    /\ pc = "idle" /\ ret = NoResult
    /\ ret' = Returned(detectStatusFromSummary(arg))
    /\ UNCHANGED <<file, pc, result, reads, invoked, arg, memberId, appVars>>

NextText == CallDetectStatus

SpecText == InitText /\ [][NextText]_vars

InitSerial == Idle /\ arg \in 0..MaxSerial

CallExcelDate ==
    /\ pc = "idle" /\ ret = NoResult
    /\ ret' = Returned(excelDateToJSDate(arg))
    /\ UNCHANGED <<file, pc, result, reads, invoked, arg, memberId, appVars>>

NextSerial == CallExcelDate

SpecSerial == InitSerial /\ [][NextSerial]_vars

\* ------------------------------------------------------------------ claims: text classifier

TierKeywords == <<VacationKeywords, SchoolKeywords, UnavailableKeywords, AvailableKeywords>>
TierStatus == <<"vacation", "school", "unavailable", "available">>

\* the tiers of which the lower-cased label contains a keyword
TiersHit(label) == {t \in 1..4 : IncludesAny(ToLower(label), TierKeywords[t])}

\* C6: the classifier returns the status of the highest-priority tier
\* (vacation > school > unavailable > available) that has a keyword in the
\* lower-cased label; vacation + school keywords give vacation, and
\* "indisponible" without a vacation or school keyword gives unavailable
C6_StrictPriority ==
    ret # NoResult =>
        /\ TiersHit(arg) # {} =>
              \E t \in TiersHit(arg) :
                  /\ \A u \in TiersHit(arg) : t <= u
                  /\ ret.v = TierStatus[t]
        /\ ({1, 2} \subseteq TiersHit(arg)) => ret.v = "vacation"
        /\ (Includes(ToLower(arg), "indisponible") /\ TiersHit(arg) \cap {1, 2} = {})
              => ret.v = "unavailable"

C6_Witness ==
    /\ ret # NoResult
    /\ {1, 2} \subseteq TiersHit(arg)
    /\ arg = "Vacances - cours annulés"
    /\ ret.v = "vacation"

\* C7: the classifier returns for every label, the empty one included; a label
\* without any keyword gives school; the result is never company
C7_TotalDefaultSchool ==
    ret # NoResult =>
        /\ ret.v \in {"vacation", "school", "unavailable", "available"}
        /\ TiersHit(arg) = {} => ret.v = "school"

C7_Witness ==
    /\ ret # NoResult
    /\ arg = ""
    /\ ret.v = "school"

\* ------------------------------------------------------------------ claims: serial decoder

\* C10 as stated: serial 1 decodes to 1899-12-31 and serial 60 to 1900-02-29
C10_AsStated ==
    ret # NoResult =>
        /\ arg = 1 => CivilOf(ret.v) = [y |-> 1899, m |-> 12, d |-> 31]
        /\ arg = 60 => CivilOf(ret.v) = [y |-> 1900, m |-> 2, d |-> 29]

\* C10 amended: serial 1 decodes to 1899-12-31, serial 60 to 1900-02-28 (the
\* Date calendar has no 1900-02-29) and serial 61 to 1900-03-01
C10_SerialDays ==
    ret # NoResult =>
        /\ arg = 1 => CivilOf(ret.v) = [y |-> 1899, m |-> 12, d |-> 31]
        /\ arg = 60 => CivilOf(ret.v) = [y |-> 1900, m |-> 2, d |-> 28]
        /\ arg = 61 => CivilOf(ret.v) = [y |-> 1900, m |-> 3, d |-> 1]

C10_Witness ==
    /\ ret # NoResult
    /\ arg = 60
    /\ CivilOf(ret.v).m = 2

\* ------------------------------------------------------------------ claims: parse results

Done == pc = "done"

Supported == ParserFor(ExtensionOf(file.name)) # "none"

ErrorsMention(text) == \E i \in 1..Len(result.errors) : Includes(result.errors[i], text)

\* the sheet of an Excel file that has one
Sheet == file.content.worksheets[1]
HasSheet ==
    /\ ParserFor(ExtensionOf(file.name)) = "parseExcelFile"
    /\ file.content.kind = "xlsx"
    /\ Len(file.content.worksheets) > 0

\* a row of the scan window satisfies one of the header criteria
SomeHeaderRow ==
    \E r \in 1..Min(HeaderScanRows, Len(Sheet)) : IsHeaderRow(HeaderMapFrom(<<>>, Sheet[r], 1))

\* C1: on every return path, success implies a non-empty event list and a
\* non-empty error list implies no success
C1_SuccessHasEvents ==
    Done =>
        /\ result.success => Len(result.events) > 0
        /\ Len(result.errors) > 0 => ~result.success

C1_Witness ==
    /\ Done /\ result.success /\ invoked = "parseExcelFile"
    /\ Len(result.events) > 0 /\ Len(result.warnings) > 0

\* the file-level failures: unsupported extension, unreadable or empty file,
\* a document its parser rejects, no worksheet, no header row, no VEVENT
FileLevelFailure ==
    \/ ~Supported
    \/ file.content.kind = "unreadable"
    \/ (file.content.kind = "text" /\ Len(Trim(file.content.text)) = 0)
    \/ (ParserFor(ExtensionOf(file.name)) = "parseICSFile" /\ file.content.kind # "ics")
    \/ (ParserFor(ExtensionOf(file.name)) = "parseExcelFile" /\ file.content.kind # "xlsx")
    \/ (file.content.kind = "xlsx" /\ Len(file.content.worksheets) = 0)
    \/ (HasSheet /\ ~SomeHeaderRow)
    \/ (file.content.kind = "ics" /\ Len(file.content.vevents) = 0)

\* C2: a file-level failure gives success = false; every result without
\* success has no events and has errors (zero events never gives success)
C2_FailureShape ==
    Done =>
        /\ FileLevelFailure => ~result.success
        /\ Len(result.events) = 0 => ~result.success
        /\ ~result.success => Len(result.events) = 0 /\ Len(result.errors) > 0

C2_Witness ==
    /\ Done /\ HasSheet /\ ~SomeHeaderRow
    /\ ~result.success /\ Len(result.errors) > 0

\* the data rows of a CSV text and those of them that make an event
CSVDataRows == parseSimpleCSV(file.content.text)
CSVValidRow(row) ==
    LET start == getCSVValue(row, CSVStartNames)
        end == getCSVValue(row, CSVEndNames)
    IN /\ start # "" /\ ~IsInvalidDate(ParseDate(start))
       /\ end # "" => /\ ~IsInvalidDate(ParseDate(end))
                      /\ ~DateBefore(ParseDate(end), ParseDate(start))
CSVValidRows == {i \in 1..Len(CSVDataRows) : CSVValidRow(CSVDataRows[i])}
CSVInvertedRows ==
    {i \in 1..Len(CSVDataRows) :
        LET start == ParseDate(getCSVValue(CSVDataRows[i], CSVStartNames))
            end == ParseDate(getCSVValue(CSVDataRows[i], CSVEndNames))
        IN ~IsInvalidDate(start) /\ ~IsInvalidDate(end) /\ DateBefore(end, start)}

IsCSVParse == Done /\ invoked = "parseCSVFile" /\ file.content.kind = "text"

\* C3: of the n data lines of a CSV text, the k valid ones each give one event
\* and the others one warning each; with k >= 1 the parse succeeds, whatever
\* the other rows are
C3_OneOutcomePerRow ==
    IsCSVParse =>
        /\ Len(result.events) = Cardinality(CSVValidRows)
        /\ Len(result.warnings) = Len(CSVDataRows) - Cardinality(CSVValidRows)
        /\ Cardinality(CSVValidRows) >= 1 => result.success

C3_Witness ==
    /\ IsCSVParse
    /\ Len(CSVDataRows) = 2 /\ Cardinality(CSVValidRows) = 1 /\ CSVInvertedRows # {}
    /\ result.success /\ Len(result.events) = 1 /\ Len(result.warnings) = 1

\* the exception that reaches the catch-all of the format parser, if any
TopLevelThrow ==
    IF ~Supported THEN ""
    ELSE IF file.content.kind = "unreadable" THEN file.content.message
    ELSE IF ParserFor(ExtensionOf(file.name)) = "parseExcelFile" /\ file.content.kind # "xlsx"
    THEN XlsxLoadMessage
    ELSE IF HasSheet /\ IsThrown(ScanHeader(Sheet, 1)) THEN ScanHeader(Sheet, 1).message
    ELSE ""

\* an exception thrown while one record is processed: a VEVENT that throws,
\* or a week row whose date cell has an object for text
RecordThrow ==
    \/ /\ ParserFor(ExtensionOf(file.name)) = "parseICSFile"
       /\ file.content.kind = "ics"
       /\ \E i \in 1..Len(file.content.vevents) : file.content.vevents[i].throws
    \/ /\ HasSheet
       /\ Sheet[1] = WeeklyHeader
       /\ \E r \in 2..Len(Sheet) : CellAt(Sheet[r], 2) = LinkRich

FatalWith(message) ==
    /\ ~result.success /\ Len(result.events) = 0 /\ ErrorsMention(message)

\* C4 as stated: whenever reading the file or any step of a format parser
\* throws, the result has success = false, no events and the message in errors
C4_AsStated ==
    Done =>
        /\ ~IsThrown(result)
        /\ TopLevelThrow # "" => FatalWith(TopLevelThrow)
        /\ RecordThrow => ~result.success /\ Len(result.events) = 0

\* C4 amended: the promise never rejects; an exception thrown by reading the
\* file, by loading the document or by the header scan gives success = false,
\* no events and its message in errors; an exception thrown while one record
\* is processed is caught there and gives a warning, not a failed parse
C4_NoExceptionEscapes ==
    Done =>
        /\ ~IsThrown(result)
        /\ TopLevelThrow # "" => FatalWith(TopLevelThrow)
        /\ RecordThrow => Len(result.warnings) > 0

C4_Witness ==
    /\ Done /\ TopLevelThrow # "" /\ invoked = "parseICSFile"
    /\ FatalWith(TopLevelThrow)

\* C5 as stated: an extension other than ics, xlsx, xls, csv gives
\* success = false, no events, an error naming the supported set, no format
\* parser invoked and no read of the content
C5_AsStated ==
    (Done /\ ExtensionOf(file.name) \notin {"ics", "xlsx", "xls", "csv"}) =>
        /\ ~result.success /\ Len(result.events) = 0
        /\ ErrorsMention(".ics, .xlsx, .xls, .csv")
        /\ invoked = "none" /\ reads = 0

\* C5 amended: as stated for a non-empty extension; when the text after the
\* last "." is empty the error does not name the supported set (the rest holds)
C5_UnsupportedExtension ==
    (Done /\ ExtensionOf(file.name) \notin {"ics", "xlsx", "xls", "csv"}) =>
        /\ ~result.success /\ Len(result.events) = 0
        /\ Len(result.errors) > 0
        /\ ExtensionOf(file.name) # "" => ErrorsMention(".ics, .xlsx, .xls, .csv")
        /\ ExtensionOf(file.name) = "" => ~ErrorsMention(".ics, .xlsx, .xls, .csv")
        /\ invoked = "none" /\ reads = 0

C5_Witness ==
    /\ Done /\ file.name = "invalid-format.txt"
    /\ ErrorsMention(".ics, .xlsx, .xls, .csv") /\ reads = 0

\* ------------------------------------------------------------------ claims: weekly grid

\* the sheet went to the weekly-grid sub-parser and events came out
IsGridResult ==
    /\ Done /\ HasSheet /\ ~IsThrown(ScanHeader(Sheet, 1))
    /\ LET keys == Keys(ScanHeader(Sheet, 1).columnMap) IN
         /\ \E col \in keys : Includes(col, "semaine") \/ Includes(col, "week") \/ col = "n°"
         /\ \E col \in keys : col \in {"lu", "ma", "me"}

GridVacationText(text) ==
    \/ Includes(text, "férié") \/ Includes(text, "ferie")
    \/ Includes(text, "vacances") \/ Includes(text, "exam")

\* C8: a grid cell containing "indisponible" (no férié/ferie/vacances/exam, not
\* "7") is classified unavailable
C8_IndisponibleUnavailable ==
    IsGridResult =>
        \A i \in 1..Len(result.events) :
            LET e == result.events[i] IN
            (/\ Includes(ToLower(e.note), "indisponible")
             /\ ~GridVacationText(ToLower(e.note))
             /\ e.note # "7")
            => e.status = "unavailable"

\* the status the claim gives a cell text, with school for the texts in schoolTexts
GridExpected(text, schoolTexts) ==
    IF text \in schoolTexts THEN "school"
    ELSE IF GridVacationText(ToLower(text)) THEN "vacation"
    ELSE IF Includes(ToLower(text), "disponible") THEN "available"
    ELSE "company"

\* the data rows anchored at "13/01/2025" whose LU cell reads "7"
SevenOnMonday13 ==
    {r \in 2..Len(Sheet) :
        /\ Sheet[1] = WeeklyHeader
        /\ Len(Sheet[r]) = 4
        /\ Sheet[r][2] = Str("13/01/2025")
        /\ extractCellText(Sheet[r][3]) = Text("7")}

EventsOn(y, m, d) ==
    {i \in 1..Len(result.events) :
        CivilOf(result.events[i].startDate) = [y |-> y, m |-> m, d |-> d]}

\* C9 as stated: "7" is school, férié/ferie/vacances/exam vacation,
\* "disponible" available, every other cell company; "7" under LU in the row
\* anchored at 13/01/2025 gives an event for 2025-01-13 with status school
C9_AsStated ==
    IsGridResult =>
        /\ \A i \in 1..Len(result.events) :
              result.events[i].status = GridExpected(result.events[i].note, {"7"})
        /\ SevenOnMonday13 # {} =>
              \E i \in EventsOn(2025, 1, 13) : result.events[i].status = "school"

\* C9 amended: as stated, with "7.00" classified as school like "7"
C9_GridClassifier ==
    IsGridResult =>
        /\ \A i \in 1..Len(result.events) :
              result.events[i].status = GridExpected(result.events[i].note, {"7", "7.00"})
        /\ SevenOnMonday13 # {} =>
              \E i \in EventsOn(2025, 1, 13) :
                  /\ result.events[i].status = "school" /\ result.events[i].note = "7"

C9_Witness ==
    /\ IsGridResult /\ SevenOnMonday13 # {}
    /\ \E i \in EventsOn(2025, 1, 13) : result.events[i].status = "school"
    /\ \E i \in 1..Len(result.events) :
          result.events[i].note = "7.00" /\ result.events[i].status = "school"

\* ------------------------------------------------------------------ claims: event interval

\* C11: every event a parser emits starts at 00:00:00.000 of its day, ends at
\* 23:59:59.999 of its day (1 ms before the next day starts) and does not end
\* before it starts
C11_NormalisedInterval ==
    Done =>
        \A i \in 1..Len(result.events) :
            LET e == result.events[i] IN
            /\ e.startDate.ms = 0
            /\ e.endDate.ms = millisecondsPerDay - 1
            /\ ~DateBefore(e.endDate, e.startDate)

C11_Witness ==
    /\ Done /\ invoked = "parseICSFile" /\ file.content.kind = "ics"
    /\ file.content.vevents =
           <<VEvent(At(2025, 1, 13, 32400000), At(2025, 1, 17, 61200000), "Semaine École HETIC")>>
    /\ Len(result.events) = 1
    /\ result.events[1].startDate = At(2025, 1, 13, 0)
    /\ result.events[1].endDate = At(2025, 1, 17, millisecondsPerDay - 1)

\* ------------------------------------------------------------------ claims: inverted ranges

\* the VEVENTs of an .ics document by outcome
ICSUsable(v) ==
    /\ ~v.throws
    /\ v.startDate # Missing /\ v.endDate # Missing
    /\ ~IsInvalidDate(v.startDate) /\ ~IsInvalidDate(v.endDate)
ICSInverted ==
    {i \in 1..Len(file.content.vevents) :
        /\ ICSUsable(file.content.vevents[i])
        /\ DateBefore(file.content.vevents[i].endDate, file.content.vevents[i].startDate)}
ICSValid ==
    {i \in 1..Len(file.content.vevents) :
        /\ ICSUsable(file.content.vevents[i])
        /\ ~DateBefore(file.content.vevents[i].endDate, file.content.vevents[i].startDate)}

IsICSParse == Done /\ invoked = "parseICSFile" /\ file.content.kind = "ics"

\* the sheet went to the generic one-row-per-event loop
IsGenericParse ==
    /\ Done /\ HasSheet /\ ~IsGridResult
    /\ With(ScanHeader(Sheet, 1), LAMBDA header :
           /\ ~IsThrown(header)
           /\ \E col \in Keys(header.columnMap) :
                  \/ Includes(col, "date") \/ Includes(col, "début")
                  \/ Includes(col, "debut") \/ Includes(col, "start"))

\* the data rows of the generic loop that have a start value
GenericDatedRows ==
    With(ScanHeader(Sheet, 1), LAMBDA header :
        {r \in header.dataStartRow..Len(Sheet) :
            /\ hasValues(Sheet[r])
            /\ ~Falsy(getCellValue(Sheet[r], ExcelStartNames, header.columnMap))})

GenericStart(r) ==
    CellDate(getCellValue(Sheet[r], ExcelStartNames, ScanHeader(Sheet, 1).columnMap))
GenericEnd(r) ==
    With(ScanHeader(Sheet, 1).columnMap, LAMBDA columnMap :
        CellDate(CellOr(getCellValue(Sheet[r], ExcelEndNames, columnMap),
                        getCellValue(Sheet[r], ExcelStartNames, columnMap))))

GenericInvertedRows ==
    {r \in GenericDatedRows :
        /\ ~IsInvalidDate(GenericStart(r)) /\ ~IsInvalidDate(GenericEnd(r))
        /\ DateBefore(GenericEnd(r), GenericStart(r))}
GenericValidRows ==
    {r \in GenericDatedRows :
        /\ ~IsInvalidDate(GenericStart(r)) /\ ~IsInvalidDate(GenericEnd(r))
        /\ ~DateBefore(GenericEnd(r), GenericStart(r))}

\* the warnings about an end date before the start date
InvertedWarnings ==
    {i \in 1..Len(result.warnings) :
        Includes(result.warnings[i], "de fin avant date de début")}

\* C12: in the ICS, generic Excel and CSV parsers a record whose end date
\* precedes its start date gives exactly one warning and no event, and the
\* other records are still processed: the events are the valid records, the
\* inverted-range warnings are the inverted records
C12_InvertedRangeSkipped ==
    /\ IsICSParse =>
          /\ Cardinality(InvertedWarnings) = Cardinality(ICSInverted)
          /\ Len(result.events) = Cardinality(ICSValid)
    /\ IsCSVParse =>
          /\ Cardinality(InvertedWarnings) = Cardinality(CSVInvertedRows)
          /\ Len(result.events) = Cardinality(CSVValidRows)
    /\ IsGenericParse =>
          /\ Cardinality(InvertedWarnings) = Cardinality(GenericInvertedRows)
          /\ Len(result.events) = Cardinality(GenericValidRows)

C12_Witness ==
    /\ IsGenericParse
    /\ Cardinality(GenericInvertedRows) = 1 /\ Cardinality(GenericValidRows) = 1
    /\ 2 \in GenericInvertedRows /\ 3 \in GenericValidRows
    /\ result.success /\ Len(result.events) = 1 /\ Cardinality(InvertedWarnings) = 1

\* ------------------------------------------------------------------ claims: header scan

\* C13: the documented classic sheet, the header Date début | Date fin | Type
\* and 10 valid rows, is parsed successfully and gives 10 events
C13_ClassicLayoutParses ==
    (Done /\ HasSheet /\ Sheet = TestCalendarSheet) =>
        result.success /\ Len(result.events) = 10

\* the rows of the scan window that satisfy a header criterion
HeaderCandidates ==
    {r \in 1..Min(HeaderScanRows, Len(Sheet)) :
        IsHeaderRow(HeaderMapFrom(<<>>, Sheet[r], 1))}
LeastHeaderRow == CHOOSE r \in HeaderCandidates : \A q \in HeaderCandidates : r <= q

\* the rows with values below row r
ValuedRowsAfter(r) == {q \in (r + 1)..Len(Sheet) : hasValues(Sheet[q])}

\* C14: when the scan ends without an exception, the header is the
\* lowest-numbered row of the first 10 that satisfies a criterion and the data starts at the row after it (in the generic loop every
\* row with values below the header, and no other, gives an event or a
\* warning); a title row, a blank row and the headers at row 3 give header row
\* 3 and data from row 4
C14_FirstQualifyingRow ==
    (Done /\ HasSheet /\ HeaderCandidates # {} /\ ~IsThrown(ScanHeader(Sheet, 1))) =>
        With(ScanHeader(Sheet, 1), LAMBDA header :
            /\ header.headerRowNumber = LeastHeaderRow
            /\ header.dataStartRow = LeastHeaderRow + 1
            /\ header.columnMap = HeaderMapFrom(<<>>, Sheet[LeastHeaderRow], 1)
            /\ IsGenericParse =>
                   Len(result.events) + Len(result.warnings)
                       = Cardinality(ValuedRowsAfter(LeastHeaderRow))
            /\ (Len(Sheet) >= 3 /\ SubSeq(Sheet, 1, 3) = <<TitleRow, BlankRow, GenericHeader>>) =>
                   header.headerRowNumber = 3 /\ header.dataStartRow = 4)

C14_Witness ==
    /\ Done /\ HasSheet
    /\ Sheet = <<TitleRow, BlankRow, GenericHeader,
                 <<Str("A"), NumCell(45670), NumCell(45674), Str("École")>>>>
    /\ ScanHeader(Sheet, 1).headerRowNumber = 3
    /\ result.success /\ Len(result.events) = 1 /\ Len(result.warnings) = 0

\* C15: when no row of the first 10 satisfies a header criterion (the scan
\* ending without an exception), also when the header sits at row 11, the
\* result has no success, no events and the error naming the two layouts, and
\* no data row was parsed (no warning)
C15_NoHeaderInWindow ==
    (Done /\ HasSheet /\ HeaderCandidates = {} /\ ~IsThrown(ScanHeader(Sheet, 1))) =>
        /\ ~result.success /\ Len(result.events) = 0
        /\ ErrorsMention("Date début | Date fin | Type")
        /\ ErrorsMention("N° Semaine | Date | LU | MA | ME")
        /\ Len(result.warnings) = 0

C15_Witness ==
    /\ Done /\ HasSheet
    /\ Len(Sheet) = HeaderScanRows + 2 /\ Sheet[HeaderScanRows + 1] = GenericHeader
    /\ hasValues(Sheet[HeaderScanRows + 2])
    /\ IsHeaderRow(HeaderMapFrom(<<>>, Sheet[HeaderScanRows + 1], 1))
    /\ ~result.success /\ result.errors = NoHeaderErrors

\* the header row the scan selected holds a week-number column, a "Date" column
\* and a column named by one of the seven weekday abbreviations
WeekHeaderSelected ==
    /\ Done /\ HasSheet /\ ~IsThrown(ScanHeader(Sheet, 1))
    /\ LET keys == Keys(ScanHeader(Sheet, 1).columnMap) IN
         /\ "n° semaine" \in keys /\ "date" \in keys
         /\ \E d \in 1..Len(dayMapping) : dayMapping[d] \in keys

\* C16: a header row with "N° Semaine", "Date" and weekday columns, whatever
\* the subset of the seven abbreviations, is parsed by the weekly-grid
\* sub-parser: the result is the one parseWeeklyCalendarFormat returns
C16_WeekHeaderToGrid ==
    WeekHeaderSelected =>
        result = parseWeeklyCalendarFormat(Sheet, ScanHeader(Sheet, 1).columnMap,
                                           ScanHeader(Sheet, 1).dataStartRow, memberId)

\* ------------------------------------------------------------------ claims: week rows

GridHeader == ScanHeader(Sheet, 1)
GridDataRows == GridHeader.dataStartRow..Len(Sheet)

\* the text of the anchor date cell of row r
AnchorText(r) == extractCellText(CellAt(Sheet[r], FindDateColumn(GridHeader.columnMap)))

\* row r is a summary row: its anchor text holds "synthèse" or "période"
SummaryRow(r) ==
    /\ AnchorText(r).isString
    /\ Includes(AnchorText(r).s, "synthèse") \/ Includes(AnchorText(r).s, "période")

\* the date the three "/"-separated parts of the anchor text of row r denote
AnchorDate(r) ==
    LET dateParts == Split(AnchorText(r).s, "/")
        month == ToNumber(dateParts[2])
    IN NewDate(ToNumber(dateParts[3]), [month EXCEPT !.v = @ - 1], ToNumber(dateParts[1]))

\* row r has values and an anchor text DD/MM/YYYY that denotes a date
AnchorValid(r) ==
    /\ hasValues(Sheet[r])
    /\ AnchorText(r).isString /\ AnchorText(r).s # "" /\ ~SummaryRow(r)
    /\ Len(Split(AnchorText(r).s, "/")) = 3
    /\ ~IsInvalidDate(AnchorDate(r))

\* the dayOffsets (Monday = 0 ... Sunday = 6) the header has a column for,
\* in increasing order from dayOffset d on
RECURSIVE OffsetsFrom(_)
OffsetsFrom(d) ==
    IF d > 6 THEN <<>>
    ELSE (IF dayMapping[d + 1] \in Keys(GridHeader.columnMap) THEN <<d>> ELSE <<>>)
         \o OffsetsFrom(d + 1)

DayCellText(r, d) ==
    extractCellText(CellAt(Sheet[r], RowGet(GridHeader.columnMap, dayMapping[d + 1])))

\* the days of row r for the dayOffsets offs, up to the first weekday cell
\* whose text is no string
RECURSIVE GridDaysOf(_, _)
GridDaysOf(r, offs) ==
    IF offs = <<>> \/ ~DayCellText(r, Head(offs)).isString THEN <<>>
    ELSE <<[day |-> AnchorDate(r).day + Head(offs), note |-> DayCellText(r, Head(offs)).s]>>
         \o GridDaysOf(r, Tail(offs))

RECURSIVE GridDaysFrom(_)
GridDaysFrom(r) ==
    IF r > Len(Sheet) THEN <<>>
    ELSE (IF AnchorValid(r) THEN GridDaysOf(r, OffsetsFrom(0)) ELSE <<>>)
         \o GridDaysFrom(r + 1)

\* C17 as stated: every row with a valid anchor date emits one event for each
\* of the k weekday columns
C17_AsStated ==
    IsGridResult =>
        Len(result.events) =
            Len(OffsetsFrom(0)) * Cardinality({r \in GridDataRows : AnchorValid(r)})

\* C17 amended: the events of a grid result are, row after row, those of the
\* rows with a valid anchor date; a row gives one single-day event for each
\* weekday column in increasing dayOffset order, dated anchor + dayOffset with
\* the cell text as note (no note for an empty cell), up to the first weekday
\* cell whose text is no string, where the row stops
C17_WeekRowEvents ==
    IsGridResult =>
        /\ Len(result.events) = Len(GridDaysFrom(GridHeader.dataStartRow))
        /\ \A i \in 1..Len(result.events) :
              /\ result.events[i].startDate =
                     [day |-> GridDaysFrom(GridHeader.dataStartRow)[i].day, ms |-> 0]
              /\ result.events[i].endDate =
                     [day |-> GridDaysFrom(GridHeader.dataStartRow)[i].day,
                      ms |-> millisecondsPerDay - 1]
              /\ result.events[i].note = GridDaysFrom(GridHeader.dataStartRow)[i].note

C17_Witness ==
    /\ IsGridResult
    /\ Sheet = <<ReversedHeader, <<NumCell(3), Str("13/01/2025"), Str("7"), Str("Férié")>>>>
    /\ Len(result.events) = 2
    /\ result.events[1].startDate = At(2025, 1, 13, 0) /\ result.events[1].note = "Férié"
    /\ result.events[2].startDate = At(2025, 1, 17, 0) /\ result.events[2].note = "7"

\* the anchor text of row r is a DD/MM/YYYY date: three numeric parts that
\* are the day, the month and the year of the date they denote
AnchorIsCalendarDay(r) ==
    /\ AnchorValid(r)
    /\ LET dateParts == Split(AnchorText(r).s, "/") IN
         CivilOf(AnchorDate(r)) = [y |-> ToNumber(dateParts[3]).v,
                                   m |-> ToNumber(dateParts[2]).v,
                                   d |-> ToNumber(dateParts[1]).v]

WarningsOfRow(r) ==
    {i \in 1..Len(result.warnings) :
        LET prefix == "Ligne " \o NatToString(r) \o ": " IN
        /\ Len(result.warnings[i]) >= Len(prefix)
        /\ SubSeq(result.warnings[i], 1, Len(prefix)) = prefix}

\* C18: in a grid result every non-summary data row whose anchor cell is no
\* DD/MM/YYYY date (empty, wrong number of parts, non-numeric parts, impossible
\* day or month) has exactly one warning, and the events are those of the
\* other rows only
C18_BadAnchorWarned ==
    IsGridResult =>
        /\ \A r \in GridDataRows :
              (hasValues(Sheet[r]) /\ ~SummaryRow(r) /\ ~AnchorIsCalendarDay(r)) =>
                  Cardinality(WarningsOfRow(r)) = 1
        /\ Len(result.events) <=
              Len(OffsetsFrom(0)) * Cardinality({r \in GridDataRows : AnchorIsCalendarDay(r)})

\* the part of C18 the rows "32/13/2025" and the rows without anchor text do
\* not contradict: wrong number of parts or a non-numeric part gives one
\* warning and no event
C18_MalformedAnchorWarned ==
    IsGridResult =>
        \A r \in GridDataRows :
            (hasValues(Sheet[r]) /\ ~SummaryRow(r) /\ ~AnchorValid(r)
                /\ AnchorText(r) # Text("")) =>
                Cardinality(WarningsOfRow(r)) = 1

\* ------------------------------------------------------------------ claims: optional columns

\* the event of the valid CSV data row i, and of the valid worksheet row r:
\* the events are in the order of the rows
CSVEventOf(i) == result.events[Cardinality({j \in CSVValidRows : j <= i})]
GenericEventOf(r) == result.events[Cardinality({q \in GenericValidRows : q <= r})]

GenericCell(r, names) == getCellValue(Sheet[r], names, ScanHeader(Sheet, 1).columnMap)

\* the valid rows without an end-date value, and without a type value
CSVNoEndRows == {i \in CSVValidRows : getCSVValue(CSVDataRows[i], CSVEndNames) = ""}
CSVNoTypeRows == {i \in CSVValidRows : getCSVValue(CSVDataRows[i], CSVTypeNames) = ""}
GenericNoEndRows == {r \in GenericValidRows : Falsy(GenericCell(r, ExcelEndNames))}
GenericNoTypeRows == {r \in GenericValidRows : Falsy(GenericCell(r, ExcelTypeNames))}

\* C19: in the generic worksheet and CSV parsers a row with a valid start
\* date and no end-date value gives one event from the start of the start day
\* to the end of the same day, a row with no type value gives an event with
\* status school and note "école", and neither row has a warning
C19_OptionalColumns ==
    /\ IsCSVParse =>
          /\ Len(result.events) = Cardinality(CSVValidRows)
          /\ \A i \in CSVNoEndRows :
                LET start == ParseDate(getCSVValue(CSVDataRows[i], CSVStartNames)) IN
                /\ CSVEventOf(i).startDate = startOfDay(start)
                /\ CSVEventOf(i).endDate = endOfDay(start)
                /\ WarningsOfRow(i + 1) = {}
          /\ \A i \in CSVNoTypeRows :
                /\ CSVEventOf(i).status = "school" /\ CSVEventOf(i).note = "école"
                /\ WarningsOfRow(i + 1) = {}
    /\ IsGenericParse =>
          /\ Len(result.events) = Cardinality(GenericValidRows)
          /\ \A r \in GenericNoEndRows :
                /\ GenericEventOf(r).startDate = startOfDay(GenericStart(r))
                /\ GenericEventOf(r).endDate = endOfDay(GenericStart(r))
                /\ WarningsOfRow(r) = {}
          /\ \A r \in GenericNoTypeRows :
                /\ GenericEventOf(r).status = "school" /\ GenericEventOf(r).note = "école"
                /\ WarningsOfRow(r) = {}

\* the CSV line "2025-02-03" under Date début,Date fin,Type: one event on
\* 3 February 2025, school, "école", no warning
C19_Witness ==
    /\ IsCSVParse
    /\ file.content.text = "Date début,Date fin,Type\n2025-02-03\n"
    /\ CSVNoEndRows = {1} /\ CSVNoTypeRows = {1}
    /\ result.success /\ Len(result.events) = 1 /\ Len(result.warnings) = 0
    /\ result.events[1].startDate = At(2025, 2, 3, 0)
    /\ result.events[1].endDate = At(2025, 2, 3, millisecondsPerDay - 1)
    /\ result.events[1].status = "school" /\ result.events[1].note = "école"

\* ------------------------------------------------------------------ claims: VEVENT dates

\* the VEVENTs for which ICAL.Event gives no startDate or no endDate
ICSMissingDates ==
    {i \in 1..Len(file.content.vevents) :
        /\ ~file.content.vevents[i].throws
        /\ \/ file.content.vevents[i].startDate = Missing
           \/ file.content.vevents[i].endDate = Missing}

MissingDatesWarnings ==
    {i \in 1..Len(result.warnings) : Includes(result.warnings[i], "dates manquantes")}

\* C20: in parseICSFile each VEVENT for which ICAL.Event gives no start date
\* or no end date has exactly one warning and no event, and the other VEVENTs
\* are still converted: the events are the valid VEVENTs, every other VEVENT
\* has one warning, and a valid VEVENT makes the parse succeed; the five
\* VEVENTs of which one has no end date give success, 4 events and 1 warning
C20_MissingDatesSkipped ==
    IsICSParse =>
        /\ Cardinality(MissingDatesWarnings) = Cardinality(ICSMissingDates)
        /\ Len(result.events) = Cardinality(ICSValid)
        /\ Len(result.warnings) = Len(file.content.vevents) - Cardinality(ICSValid)
        /\ ICSValid # {} => result.success
        /\ file.content.vevents = FiveVEvents =>
              result.success /\ Len(result.events) = 4 /\ Len(result.warnings) = 1

C20_Witness ==
    /\ IsICSParse /\ file.content.vevents = FiveVEvents
    /\ ICSMissingDates = {4}
    /\ result.success /\ Len(result.events) = 4
    /\ result.warnings = <<"Événement ignoré (dates manquantes): Formation React">>
    /\ result.events[4].note = "Absent"

\* ------------------------------------------------------------------ claims: ICS hard failures

\* parseICSFile was called and file.text() gave the text of the file
ICSTextParsed == Done /\ invoked = "parseICSFile" /\ file.content.kind # "unreadable"

StartsWith(s, prefix) == Len(s) >= Len(prefix) /\ SubSeq(s, 1, Len(prefix)) = prefix

\* C21: parseICSFile fails, with no events and an error of its own, when the
\* text is empty or blank, when the text is no iCalendar document, when the
\* document has no VEVENT, and when every VEVENT was skipped; in the last case
\* the warnings, one per VEVENT, come with the error
C21_ICSHardFailures ==
    ICSTextParsed =>
        /\ Len(Trim(file.content.text)) = 0 =>
              result = Failure(<<"Le fichier est vide">>, <<>>)
        /\ (Len(Trim(file.content.text)) > 0 /\ file.content.kind # "ics") =>
              /\ ~result.success /\ result.events = <<>> /\ result.warnings = <<>>
              /\ Len(result.errors) = 1
              /\ StartsWith(result.errors[1], "Format ICS invalide: ")
        /\ (file.content.kind = "ics" /\ Len(file.content.vevents) = 0) =>
              result = Failure(<<"Aucun événement trouvé dans le fichier ICS">>, <<>>)
        /\ (file.content.kind = "ics" /\ Len(file.content.vevents) > 0 /\ ICSValid = {}) =>
              /\ ~result.success /\ result.events = <<>>
              /\ result.errors = <<"Aucun événement valide trouvé">>
              /\ Len(result.warnings) = Len(file.content.vevents)

C21_Witness ==
    /\ ICSTextParsed /\ file.content.kind = "ics"
    /\ Len(file.content.vevents) = 2 /\ ICSValid = {}
    /\ file.content.vevents[1].endDate = Missing
    /\ ~result.success /\ result.errors = <<"Aucun événement valide trouvé">>
    /\ Len(result.warnings) = 2
    /\ result.warnings[1] = "Événement ignoré (dates manquantes): Formation React"

\* ------------------------------------------------------------------ claims: CSV line references

\* the physical lines of the uploaded text, and those that are not blank
PhysicalLines == SplitLines(file.content.text)
NonBlankUpTo(l) == {k \in 1..l : NonBlank(PhysicalLines[k])}

\* the physical lines that hold a data record: not blank, and not the header
\* (the first line that is not blank)
RecordLines ==
    {l \in 1..Len(PhysicalLines) :
        NonBlank(PhysicalLines[l]) /\ Cardinality(NonBlankUpTo(l)) >= 2}

\* the data row (1-based) the physical line l of RecordLines becomes
RowOfLine(l) == Cardinality(NonBlankUpTo(l)) - 1

\* the part of C22 about the index: the data row of 0-based index i is
\* rejected with exactly one warning "Ligne i+2", an accepted row has none
C22_IndexPlusTwo ==
    IsCSVParse =>
        \A i \in 1..Len(CSVDataRows) :
            Cardinality(WarningsOfRow((i - 1) + 2)) = (IF i \in CSVValidRows THEN 0 ELSE 1)

\* C22: the line reference of the warning for a rejected CSV record is the
\* number of the physical line of that record in the uploaded text
C22_PhysicalLine ==
    IsCSVParse =>
        \A l \in RecordLines :
            Cardinality(WarningsOfRow(l)) = (IF RowOfLine(l) \in CSVValidRows THEN 0 ELSE 1)

\* ------------------------------------------------------------------ two calls at once

\* what a parseCalendarFile call that runs to its end resolves with
parseCalendarFile(f, member) ==
    IF ExtensionOf(f.name) = "" THEN
        Failure(<<"Impossible de déterminer le format du fichier">>, <<>>)
    ELSE CASE ParserOf(f.name) = "parseICSFile" -> parseICSFile(f.content, member)
           [] ParserOf(f.name) = "parseExcelFile" -> parseExcelFile(f.content, member)
           [] ParserOf(f.name) = "parseCSVFile" -> parseCSVFile(f.content, member)
           [] OTHER -> Failure(UnsupportedErrors(ExtensionOf(f.name)), <<>>)

Callers == {1, 2}

PairFiles ==
    {[name |-> "test-calendar.ics", content |-> ICSDocument(FiveVEvents)],
     [name |-> "invalid-dates.csv",
      content |-> PlainText("Date début,Date fin,Type\n2025-01-20,2025-01-15,Entreprise\n2025-01-27,,Vacances\n")],
     [name |-> "planning.xlsx",
      content |-> Workbook(<<<<WeeklyHeader,
                               <<NumCell(3), Str("13/01/2025"), Str("7"), Str("Férié")>>,
                               <<NumCell(5), Str("27-01-2025"), Str("7"), Null>>>>>>)],
     [name |-> "planning.xls", content |-> Unreadable("The requested file could not be read")],
     [name |-> "vide.ics", content |-> ICSDocument(<<VEvent(At(2025, 2, 10, 0), Missing, "Absent")>>)],
     [name |-> "invalid-format.txt", content |-> PlainText("Date début,Date fin,Type")]}

PairMembers == <<"member-123", "member-456">>

\* mutant: the lists are module-level, one for all the calls
FrameOfShared(c) == 1

\* the events and warnings lists a call pushes to are locals of its own
\* activation of the format parser
FrameOf(c) == c

\* two calls on different files; no list holds anything yet
InitPair ==
    /\ file = NoFile /\ pc = "idle" /\ result = NoResult
    /\ reads = 0 /\ invoked = "none" /\ ret = NoResult /\ memberId = "" /\ arg = 0
    /\ db = Unused /\ reqs = Unused /\ store = Unused /\ chan = Unused
    /\ \E f1 \in PairFiles : \E f2 \in PairFiles \ {f1} :
           calls = [act |-> [c \in Callers |->
                                [file |-> IF c = 1 THEN f1 ELSE f2, member |-> PairMembers[c],
                                 pc |-> "start", invoked |-> "none", result |-> NoResult]],
                    frames |-> [c \in Callers |-> NoRecords]]

ParseVars == <<file, pc, result, reads, invoked, arg, ret, memberId>>

\* the format parser of call c runs from its last await to its return: the
\* events and warnings r holds are pushed to the lists of the call's frame,
\* and the result the call resolves with refers to those lists
Resolve(c, r) ==
    LET frame == calls.frames[FrameOf(c)]
        lists == [events |-> frame.events \o r.events,
                  warnings |-> frame.warnings \o r.warnings]
    IN calls' = [act |-> [calls.act EXCEPT ![c] =
                             [@ EXCEPT !.pc = "done",
                                       !.result = IF r.success
                                                  THEN Success(lists.events, lists.warnings)
                                                  ELSE Failure(r.errors, lists.warnings)]],
                 frames |-> [calls.frames EXCEPT ![FrameOf(c)] = lists]]

\* the synchronous part of call c, up to the first await of its format parser
PairDispatch(c) ==
    /\ calls.act[c].pc = "start"
    /\ IF ParserOf(calls.act[c].file.name) = "none"
       THEN calls' = [calls EXCEPT !.act[c].pc = "done",
                                   !.act[c].result =
                                       parseCalendarFile(calls.act[c].file, calls.act[c].member)]
       ELSE calls' = [calls EXCEPT !.act[c].pc = "reading",
                                   !.act[c].invoked = ParserOf(calls.act[c].file.name)]
    /\ UNCHANGED <<ParseVars, db, reqs, store, chan>>

\* await file.text() of call c settles (parseICSFile, parseCSVFile)
PairTextRead(c) ==
    /\ calls.act[c].pc = "reading"
    /\ calls.act[c].invoked \in {"parseICSFile", "parseCSVFile"}
    /\ Resolve(c, parseCalendarFile(calls.act[c].file, calls.act[c].member))
    /\ UNCHANGED <<ParseVars, db, reqs, store, chan>>

\* await file.arrayBuffer() of call c settles (parseExcelFile)
PairBufferRead(c) ==
    /\ calls.act[c].pc = "reading" /\ calls.act[c].invoked = "parseExcelFile"
    /\ IF calls.act[c].file.content.kind = "unreadable"
       THEN Resolve(c, parseCalendarFile(calls.act[c].file, calls.act[c].member))
       ELSE calls' = [calls EXCEPT !.act[c].pc = "loading"]
    /\ UNCHANGED <<ParseVars, db, reqs, store, chan>>

\* await workbook.xlsx.load(buffer) of call c settles
PairWorkbookLoaded(c) ==
    /\ calls.act[c].pc = "loading"
    /\ Resolve(c, parseCalendarFile(calls.act[c].file, calls.act[c].member))
    /\ UNCHANGED <<ParseVars, db, reqs, store, chan>>

NextPair ==
    \E c \in Callers :
        \/ PairDispatch(c)
        \/ PairTextRead(c)
        \/ PairBufferRead(c)
        \/ PairWorkbookLoaded(c)

SpecPair == InitPair /\ [][NextPair]_vars

\* ------------------------------------------------------------------ claims: two calls at once

PairDone(c) == calls # Unused /\ calls.act[c].pc = "done"

\* C23: of two parseCalendarFile calls on different files whose steps
\* interleave at the awaits, each resolves with the events, warnings and
\* errors of the same call run alone, and no event or warning of one call is
\* in the result of the other
C23_CallsIndependent ==
    \A c \in Callers :
        PairDone(c) =>
            /\ calls.act[c].result =
                   parseCalendarFile(calls.act[c].file, calls.act[c].member)
            /\ \A i \in 1..Len(calls.act[c].result.events) :
                   calls.act[c].result.events[i].memberId = calls.act[c].member
            /\ \A d \in Callers \ {c}, i \in 1..Len(calls.act[c].result.warnings) :
                   PairDone(d) =>
                       \A j \in 1..Len(calls.act[d].result.warnings) :
                           calls.act[c].result.warnings[i] # calls.act[d].result.warnings[j]

\* both calls are done, the second having finished while the first was at an
\* await: each holds its own events and warnings
C23_Witness ==
    /\ PairDone(1) /\ PairDone(2)
    /\ calls.act[1].file.name = "test-calendar.ics"
    /\ calls.act[2].file.name = "invalid-dates.csv"
    /\ Len(calls.act[1].result.events) = 4 /\ Len(calls.act[1].result.warnings) = 1
    /\ Len(calls.act[2].result.events) = 1
    /\ calls.act[2].result.warnings = <<"Ligne 2: Date de fin avant date de début">>

\* ------------------------------------------------------------------ column lookup on its own

HeaderNames == {"Date", "date début", "DATE FIN", "Fin", "Type"}

\* the cell of column c: empty, or a text that names the column
ColumnValues(n) == [1..n -> {TRUE, FALSE}]
ValueAt(filled, c) == IF filled[c] THEN "v" \o NatToString(c) ELSE ""
CellValueAt(filled, c) == IF filled[c] THEN Str(ValueAt(filled, c)) ELSE Null

ColumnInputs ==
    {[kind |-> k, headers |-> h, filled |-> f, names |-> n] :
        k \in {"csv", "xlsx"},
        h \in SeqsUpTo(HeaderNames, MaxColumns) \ {<<>>},
        f \in ColumnValues(MaxColumns),
        n \in 1..3}

\* the synonym lists of the three logical fields
CSVNames(n) == <<CSVStartNames, CSVEndNames, CSVTypeNames>>[n]
ExcelNames(n) == <<ExcelStartNames, ExcelEndNames, ExcelTypeNames>>[n]

InitColumns == Idle /\ arg \in ColumnInputs

\* getCSVValue on the row object parseSimpleCSV builds for the header line
CallGetCSVValue ==
    /\ pc = "idle" /\ ret = NoResult /\ arg.kind = "csv"
    /\ ret' = Returned(getCSVValue(
                   CSVRow(<<>>, arg.headers,
                          [c \in 1..Len(arg.headers) |-> ValueAt(arg.filled, c)], 1),
                   CSVNames(arg.names)))
    /\ UNCHANGED <<file, pc, result, reads, invoked, arg, memberId, appVars>>

\* getCellValue on a worksheet row, with the column map of the header row
CallGetCellValue ==
    /\ pc = "idle" /\ ret = NoResult /\ arg.kind = "xlsx"
    /\ ret' = Returned(getCellValue(
                   [c \in 1..Len(arg.headers) |-> CellValueAt(arg.filled, c)],
                   ExcelNames(arg.names),
                   HeaderMapFrom(<<>>, [c \in 1..Len(arg.headers) |-> Str(arg.headers[c])], 1)))
    /\ UNCHANGED <<file, pc, result, reads, invoked, arg, memberId, appVars>>

NextColumns == CallGetCSVValue \/ CallGetCellValue

SpecColumns == InitColumns /\ [][NextColumns]_vars

\* ------------------------------------------------------------------ claims: column lookup

LookupNames == IF arg.kind = "csv" THEN CSVNames(arg.names) ELSE ExcelNames(arg.names)

\* the columns whose header is the synonym, letter case apart
ColumnsNamed(synonym) ==
    {c \in 1..Len(arg.headers) : ToLower(Trim(arg.headers[c])) = ToLower(Trim(synonym))}

\* the first synonym of the list that names a column, or 0
FirstSynonym ==
    IF \E i \in 1..Len(LookupNames) : ColumnsNamed(LookupNames[i]) # {}
    THEN CHOOSE i \in 1..Len(LookupNames) :
             /\ ColumnsNamed(LookupNames[i]) # {}
             /\ \A j \in 1..(i - 1) : ColumnsNamed(LookupNames[j]) = {}
    ELSE 0

LookedUp == pc = "idle" /\ ret # NoResult

\* C24: the value of a logical field is the cell of a column named by the
\* first synonym of the list that names a column at all, letter case apart,
\* also when that cell is empty in the row; with no such synonym the field
\* has no value
C24_FirstSynonymWins ==
    LookedUp =>
        IF FirstSynonym = 0
        THEN ret = Returned(IF arg.kind = "csv" THEN "" ELSE Null)
        ELSE \E c \in ColumnsNamed(LookupNames[FirstSynonym]) :
                 ret = Returned(IF arg.kind = "csv" THEN ValueAt(arg.filled, c)
                                ELSE CellValueAt(arg.filled, c))

\* "Date" before "date début", the "date début" cell empty: the start date
\* has no value although the "Date" cell has one
C24_Witness ==
    /\ LookedUp /\ arg.kind = "csv" /\ arg.names = 1
    /\ arg.headers = <<"Date", "date début">>
    /\ arg.filled[1] /\ ~arg.filled[2]
    /\ ret = Returned("")

\* ---------------------------------------------------------------------------
\* Stamping of the parsed events
\* ---------------------------------------------------------------------------

EventsOfCall(c) == calls.act[c].result.events

ExtensionOfCall(c) == ExtensionOf(calls.act[c].file.name)

\* C25: every event returned by parseCalendarFile(file, subjectId), whatever
\* the format, has memberId equal to the caller's subjectId and isImported true
C25_EventsStamped ==
    \A c \in Callers :
        PairDone(c) =>
            \A i \in 1..Len(EventsOfCall(c)) :
                /\ EventsOfCall(c)[i].memberId = calls.act[c].member
                /\ EventsOfCall(c)[i].isImported = TRUE

\* the first caller's ICS file and the second caller's workbook have both
\* produced events, each for its own member
C25_Witness ==
    /\ \A c \in Callers : PairDone(c) /\ Len(EventsOfCall(c)) > 0
    /\ ExtensionOfCall(1) = "ics" /\ ExtensionOfCall(2) = "xlsx"
    /\ EventsOfCall(2)[1].memberId = "member-456"

\* a CSV file parsed for the second caller has produced events
C25_WitnessCSV ==
    /\ PairDone(2) /\ Len(EventsOfCall(2)) > 0
    /\ ExtensionOfCall(2) = "csv"
    /\ EventsOfCall(2)[1].memberId = "member-456"

\* ---------------------------------------------------------------------------
\* Dispatch on the file name
\* ---------------------------------------------------------------------------

HasDot(name) == \E i \in 1..Len(name) : SubSeq(name, i, i) = "."

\* the text after the last '.' of a name that has one
RECURSIVE AfterLastDot(_)
AfterLastDot(name) ==
    IF ~HasDot(name) THEN name
    ELSE AfterLastDot(SubSeq(name, 1 + (CHOOSE i \in 1..Len(name) : SubSeq(name, i, i) = "."),
                             Len(name)))

SupportedExtensions == {"ics", "xlsx", "xls", "csv"}

Dispatched == invoked # "none"

\* the format parser is one of the three, and it is the one of the extension
C26_ParserOfExtension ==
    Dispatched =>
        /\ ToLower(AfterLastDot(file.name)) \in SupportedExtensions
        /\ invoked = ParserFor(ToLower(AfterLastDot(file.name)))

\* C26: a file is handed to a format parser only if its name contains a '.'
\* and the text after the last '.' is ics, xlsx, xls or csv in any case; a
\* name without '.' is never dispatched
C26_DispatchNeedsDot ==
    Dispatched =>
        /\ HasDot(file.name)
        /\ ToLower(AfterLastDot(file.name)) \in SupportedExtensions

\* the file named "csv" has been handed to the CSV parser
C26_BareNameDispatched ==
    /\ file.name = "csv" /\ invoked = "parseCSVFile"
    /\ pc = "done" /\ result.success

\* ---------------------------------------------------------------------------
\* The import API: POST /api/import and DELETE /api/import/:memberId, two
\* requests in flight against one database, and the store of the client that
\* sent them
\* ---------------------------------------------------------------------------

Requests == {1, 2}

HexChars ==
    {"0", "1", "2", "3", "4", "5", "6", "7", "8", "9",
     "a", "b", "c", "d", "e", "f", "A", "B", "C", "D", "E", "F"}

\* /^[0-9a-f]{8}-[0-9a-f]{4}-[0-9a-f]{4}-[0-9a-f]{4}-[0-9a-f]{12}$/i
IsUUID(id) ==
    /\ Len(id) = 36
    /\ \A i \in 1..36 :
           IF i \in {9, 14, 19, 24} THEN SubSeq(id, i, i) = "-"
           ELSE SubSeq(id, i, i) \in HexChars

Alice == "11111111-1111-4111-8111-111111111111"
Bob == "22222222-2222-4222-8222-222222222222"
Stranger == "99999999-9999-4999-8999-999999999999"

ImportFiles ==
    <<[name |-> "planning.ics",
       content |-> ICSDocument(<<VEvent(At(2025, 1, 13, 32400000), At(2025, 1, 17, 61200000), "Semaine École HETIC"),
                                 VEvent(At(2025, 1, 27, 0), At(2025, 1, 31, 0), "Vacances d'hiver")>>)],
      [name |-> "planning.csv",
       content |-> PlainText("Date début,Date fin,Type\n2025-02-03,2025-02-07,Entreprise\n")],
      [name |-> "vide.ics", content |-> ICSDocument(<<VEvent(At(2025, 2, 10, 0), Missing, "Absent")>>)],
      [name |-> "invalid-format.txt", content |-> PlainText("Date début,Date fin,Type")]>>

\* a row of calendar_events
EventRow(id, member, startDate, endDate, status, note, imported) ==
    [id |-> id, member_id |-> member, start_date |-> startDate, end_date |-> endDate,
     status |-> status, note |-> note, is_imported |-> imported]

\* a row of imported_calendars
ImportRow(id, member, fileName, fileType, fileUrl) ==
    [id |-> id, member_id |-> member, file_name |-> fileName, file_type |-> fileType,
     file_url |-> fileUrl]

RowId(n) == "row-" \o NatToString(n)

\* the database before the two requests: Alice has an import of old.ics and an
\* event entered by hand, Bob has an import of his own
InitialDb ==
    [members |-> {Alice, Bob},
     events |->
         {EventRow(RowId(1), Alice, At(2025, 1, 6, 0), endOfDay(At(2025, 1, 10, 0)), "school", Null, TRUE),
          EventRow(RowId(2), Alice, At(2025, 1, 20, 0), endOfDay(At(2025, 1, 20, 0)), "unavailable",
                   Str("Dentiste"), FALSE),
          EventRow(RowId(3), Bob, At(2025, 1, 6, 0), endOfDay(At(2025, 1, 10, 0)), "vacation", Null, TRUE),
          EventRow(RowId(4), Bob, At(2025, 1, 21, 0), endOfDay(At(2025, 1, 21, 0)), "available", Null, FALSE)},
     imports |->
         {ImportRow(RowId(5), Alice, "old.ics", "ics", ""),
          ImportRow(RowId(6), Bob, "bob.csv", "csv", "")},
     nextId |-> 7]

NoImportRow == ImportRow("", "", "", "", "")

\* a request as it arrives: memberId "" stands for a missing form field, the
\* file NoFile for a missing file part, fileName "" for a missing parameter
Request(method, member, f, fileName, deleteEvents) ==
    [method |-> method, memberId |-> member, file |-> f, fileName |-> fileName,
     deleteEvents |-> deleteEvents, pc |-> "start", status |-> 0,
     parseResult |-> NoResult, fileUrl |-> "", importRecord |-> NoImportRow,
     failed |-> {}]

PostRequests ==
    {Request("POST", Alice, ImportFiles[k], "", TRUE) : k \in 1..Len(ImportFiles)}
    \cup {Request("POST", m, ImportFiles[1], "", TRUE) : m \in {Bob, Stranger, "member-123", ""}}
    \cup {Request("POST", Alice, NoFile, "", TRUE)}

DeleteRequests ==
    {Request("DELETE", Alice, NoFile, "old.ics", d) : d \in BOOLEAN}
    \cup {Request("DELETE", Alice, NoFile, n, TRUE) : n \in {"planning.ics", ""}}
    \cup {Request("DELETE", "member-123", NoFile, "old.ics", TRUE)}

\* dbEventToCalendarEvent: the event of the store for a row
CalendarEventOf(row) ==
    [id |-> row.id, memberId |-> row.member_id, startDate |-> row.start_date,
     endDate |-> row.end_date, status |-> row.status,
     note |-> IF row.note = Null THEN "" ELSE row.note.v,
     isImported |-> row.is_imported]

ImportedCalendar(member, fileName, events) ==
    [memberId |-> member, fileName |-> fileName, events |-> events]

\* the store after it has loaded the initial database
LoadedStore ==
    [events |-> <<CalendarEventOf(EventRow(RowId(1), Alice, At(2025, 1, 6, 0), endOfDay(At(2025, 1, 10, 0)), "school", Null, TRUE)),
                  CalendarEventOf(EventRow(RowId(2), Alice, At(2025, 1, 20, 0), endOfDay(At(2025, 1, 20, 0)), "unavailable", Str("Dentiste"), FALSE)),
                  CalendarEventOf(EventRow(RowId(3), Bob, At(2025, 1, 6, 0), endOfDay(At(2025, 1, 10, 0)), "vacation", Null, TRUE)),
                  CalendarEventOf(EventRow(RowId(4), Bob, At(2025, 1, 21, 0), endOfDay(At(2025, 1, 21, 0)), "available", Null, FALSE))>>,
     importedCalendars |-> <<ImportedCalendar(Alice, "old.ics", <<>>),
                             ImportedCalendar(Bob, "bob.csv", <<>>)>>]

InitImport ==
    /\ file = NoFile /\ pc = "idle" /\ result = NoResult
    /\ reads = 0 /\ invoked = "none" /\ ret = NoResult /\ memberId = "" /\ arg = 0
    /\ calls = Unused /\ chan = Unused
    /\ db = InitialDb
    /\ store = LoadedStore
    /\ \E first \in PostRequests \cup DeleteRequests :
           \E second \in PostRequests \cup DeleteRequests :
               reqs = [r \in Requests |-> IF r = 1 THEN first ELSE second]

At_(r, label) == reqs # Unused /\ reqs[r].pc = label

Respond(r, status) == [reqs EXCEPT ![r].pc = "done", ![r].status = status]

Goto(r, label) == [reqs EXCEPT ![r].pc = label]

ImportFrame == UNCHANGED <<ParseVars, calls, chan>>

\* POST, lines 23-63: the form fields and the file type
PostValidate(r) ==
    /\ At_(r, "start") /\ reqs[r].method = "POST"
    /\ reqs' = IF reqs[r].memberId = "" \/ ~IsUUID(reqs[r].memberId)
                  \/ reqs[r].file = NoFile
                  \/ ExtensionOf(reqs[r].file.name) \notin SupportedExtensions
               THEN Respond(r, 400)
               ELSE Goto(r, "member")
    /\ UNCHANGED <<db, store>> /\ ImportFrame

\* POST, lines 69-80: the member must exist
PostMemberLookup(r) ==
    /\ At_(r, "member") /\ reqs[r].method = "POST"
    /\ reqs' = IF reqs[r].memberId \in db.members THEN Goto(r, "parse") ELSE Respond(r, 404)
    /\ UNCHANGED <<db, store>> /\ ImportFrame

\* POST, lines 82-95: the file is parsed; nothing usable answers 400
PostParse(r) ==
    /\ At_(r, "parse") /\ reqs[r].method = "POST"
    /\ reqs' = With(parseCalendarFile(reqs[r].file, reqs[r].memberId), LAMBDA parseResult :
                   IF ~parseResult.success \/ Len(parseResult.events) = 0
                   THEN [Respond(r, 400) EXCEPT ![r].parseResult = parseResult]
                   ELSE [Goto(r, "upload") EXCEPT ![r].parseResult = parseResult])
    /\ UNCHANGED <<db, store>> /\ ImportFrame

\* POST, lines 97-131: the upload to storage, whose failure is not critical
PostUpload(r) ==
    /\ At_(r, "upload") /\ reqs[r].method = "POST"
    /\ \E uploaded \in BOOLEAN :
           reqs' = [Goto(r, "deleteEvents") EXCEPT
                       ![r].fileUrl = IF uploaded
                                      THEN "calendar-files/" \o reqs[r].memberId \o "/" \o reqs[r].file.name
                                      ELSE "",
                       ![r].failed = IF uploaded THEN @ ELSE @ \cup {"upload"}]
    /\ UNCHANGED <<db, store>> /\ ImportFrame

\* mutant: the deletion is not restricted to the imported rows
WithoutMemberEvents(rows, member) ==
    {row \in rows : row.member_id # member}

\* .delete().eq('member_id', memberId).eq('is_imported', true)
WithoutImportedEvents(rows, member) ==
    {row \in rows : ~(row.member_id = member /\ row.is_imported)}

\* POST, lines 133-144: the old imported events of the member are deleted; an
\* error is logged and the request goes on
PostDeleteEvents(r) ==
    /\ At_(r, "deleteEvents") /\ reqs[r].method = "POST"
    /\ \E ok \in BOOLEAN :
           /\ db' = IF ok THEN [db EXCEPT !.events = WithoutImportedEvents(@, reqs[r].memberId)]
                    ELSE db
           /\ reqs' = [Goto(r, "deleteImport") EXCEPT
                          ![r].failed = IF ok THEN @ ELSE @ \cup {"deleteEvents"}]
    /\ UNCHANGED store /\ ImportFrame

\* POST, lines 146-155: the old import records of the member are deleted; an
\* error is logged and the request goes on
PostDeleteImport(r) ==
    /\ At_(r, "deleteImport") /\ reqs[r].method = "POST"
    /\ \E ok \in BOOLEAN :
           /\ db' = IF ok THEN [db EXCEPT !.imports = {row \in @ : row.member_id # reqs[r].memberId}]
                    ELSE db
           /\ reqs' = [Goto(r, "insertEvents") EXCEPT
                          ![r].failed = IF ok THEN @ ELSE @ \cup {"deleteImport"}]
    /\ UNCHANGED store /\ ImportFrame

\* lines 158-165: eventsToInsert, with the ids the database gives the rows
EventsToInsert(events, member, nextId) ==
    {EventRow(RowId(nextId + k - 1), member, startOfDay(events[k].startDate),
              endOfDay(events[k].endDate), events[k].status,
              IF events[k].note = "" THEN Null ELSE Str(events[k].note), TRUE) :
         k \in 1..Len(events)}

\* POST, lines 168-179: the batch insert; its failure answers 500
PostInsertEvents(r) ==
    /\ At_(r, "insertEvents") /\ reqs[r].method = "POST"
    /\ \E ok \in BOOLEAN :
           IF ok
           THEN /\ db' = [db EXCEPT
                             !.events = @ \cup EventsToInsert(reqs[r].parseResult.events,
                                                              reqs[r].memberId, db.nextId),
                             !.nextId = @ + Len(reqs[r].parseResult.events)]
                /\ reqs' = Goto(r, "insertImport")
           ELSE /\ db' = db
                /\ reqs' = [Respond(r, 500) EXCEPT ![r].failed = @ \cup {"insertEvents"}]
    /\ UNCHANGED store /\ ImportFrame

\* POST, lines 181-206: the import record, unique per (member_id, file_name);
\* an error is logged and the answer is 201 all the same
PostInsertImport(r) ==
    /\ At_(r, "insertImport") /\ reqs[r].method = "POST"
    /\ IF \E row \in db.imports :
              row.member_id = reqs[r].memberId /\ row.file_name = reqs[r].file.name
       THEN /\ db' = db
            /\ reqs' = [Respond(r, 201) EXCEPT ![r].failed = @ \cup {"insertImport"}]
       ELSE /\ db' = [db EXCEPT
                         !.imports = @ \cup {ImportRow(RowId(db.nextId), reqs[r].memberId,
                                                       reqs[r].file.name,
                                                       IF ExtensionOf(reqs[r].file.name) = "xls"
                                                       THEN "xlsx"
                                                       ELSE ExtensionOf(reqs[r].file.name),
                                                       reqs[r].fileUrl)},
                         !.nextId = @ + 1]
            /\ reqs' = Respond(r, 201)
    /\ UNCHANGED store /\ ImportFrame

\* DELETE, part_001 lines 108-128: the member id and the fileName parameter
DeleteValidate(r) ==
    /\ At_(r, "start") /\ reqs[r].method = "DELETE"
    /\ reqs' = IF reqs[r].memberId = "" \/ ~IsUUID(reqs[r].memberId) \/ reqs[r].fileName = ""
               THEN Respond(r, 400)
               ELSE Goto(r, "lookup")
    /\ UNCHANGED <<db, store>> /\ ImportFrame

\* .select('*').eq('member_id', memberId).eq('file_name', fileName)
ImportsNamed(member, fileName) ==
    {row \in db.imports : row.member_id = member /\ row.file_name = fileName}

\* DELETE, lines 130-143: .single() gives the record only if exactly one matches
DeleteLookup(r) ==
    /\ At_(r, "lookup") /\ reqs[r].method = "DELETE"
    /\ reqs' = IF Cardinality(ImportsNamed(reqs[r].memberId, reqs[r].fileName)) = 1
               THEN [Goto(r, IF reqs[r].deleteEvents THEN "deleteEvents" ELSE "deleteImport")
                        EXCEPT ![r].importRecord =
                            CHOOSE row \in ImportsNamed(reqs[r].memberId, reqs[r].fileName) : TRUE]
               ELSE Respond(r, 404)
    /\ UNCHANGED <<db, store>> /\ ImportFrame

\* DELETE, lines 145-164: with deleteEvents the imported events of the member
\* are deleted; an error answers 500
DeleteImportedEvents(r) ==
    /\ At_(r, "deleteEvents") /\ reqs[r].method = "DELETE"
    /\ \E ok \in BOOLEAN :
           IF ok
           THEN /\ db' = [db EXCEPT !.events = WithoutImportedEvents(@, reqs[r].memberId)]
                /\ reqs' = Goto(r, "deleteImport")
           ELSE /\ db' = db
                /\ reqs' = [Respond(r, 500) EXCEPT ![r].failed = @ \cup {"deleteEvents"}]
    /\ UNCHANGED store /\ ImportFrame

\* DELETE, lines 166-212: the stored file is removed (not critical), then the
\* import record by its id; an error answers 500
DeleteImportRecord(r) ==
    /\ At_(r, "deleteImport") /\ reqs[r].method = "DELETE"
    /\ \E ok \in BOOLEAN :
           IF ok
           THEN /\ db' = [db EXCEPT !.imports = {row \in @ : row.id # reqs[r].importRecord.id}]
                /\ reqs' = Respond(r, 200)
           ELSE /\ db' = db
                /\ reqs' = [Respond(r, 500) EXCEPT ![r].failed = @ \cup {"deleteImport"}]
    /\ UNCHANGED store /\ ImportFrame

\* store.importCalendar, lines 282-320
importCalendar(state, calendar) ==
    [events |->
         SelectSeq(state.events,
                   LAMBDA event : ~(event.memberId = calendar.memberId /\ event.isImported))
         \o [k \in 1..Len(calendar.events) |->
                 [id |-> "import-" \o NatToString(k),
                  memberId |-> calendar.events[k].memberId,
                  startDate |-> calendar.events[k].startDate,
                  endDate |-> calendar.events[k].endDate,
                  status |-> calendar.events[k].status,
                  note |-> calendar.events[k].note,
                  isImported |-> TRUE]],
     importedCalendars |->
         Append(SelectSeq(state.importedCalendars,
                          LAMBDA c : c.memberId # calendar.memberId),
                calendar)]

\* store.removeImportedCalendar after the DELETE request has answered ok,
\* lines 335-345
removeImportedCalendar(state, member, fileName, deleteEvents) ==
    [events |->
         IF deleteEvents
         THEN SelectSeq(state.events,
                        LAMBDA event : ~(event.memberId = member /\ event.isImported))
         ELSE state.events,
     importedCalendars |->
         SelectSeq(state.importedCalendars,
                   LAMBDA c : ~(c.memberId = member /\ c.fileName = fileName))]

\* the client receives the answer: after an upload the calendar is put in the
\* store with importCalendar; removeImportedCalendar updates the store when
\* the DELETE answered ok and throws otherwise
ClientSettle(r) ==
    /\ At_(r, "done")
    /\ reqs' = Goto(r, "settled")
    /\ store' = IF reqs[r].method = "POST" /\ reqs[r].status = 201
                THEN importCalendar(store, ImportedCalendar(reqs[r].memberId, reqs[r].file.name,
                                                            reqs[r].parseResult.events))
                ELSE IF reqs[r].method = "DELETE" /\ reqs[r].status = 200
                THEN removeImportedCalendar(store, reqs[r].memberId, reqs[r].fileName,
                                            reqs[r].deleteEvents)
                ELSE store
    /\ UNCHANGED db /\ ImportFrame

NextImport ==
    \E r \in Requests :
        \/ PostValidate(r)
        \/ PostMemberLookup(r)
        \/ PostParse(r)
        \/ PostUpload(r)
        \/ PostDeleteEvents(r)
        \/ PostDeleteImport(r)
        \/ PostInsertEvents(r)
        \/ PostInsertImport(r)
        \/ DeleteValidate(r)
        \/ DeleteLookup(r)
        \/ DeleteImportedEvents(r)
        \/ DeleteImportRecord(r)
        \/ ClientSettle(r)

SpecImport == InitImport /\ [][NextImport]_vars

\* ---------------------------------------------------------------------------
\* A refused upload and the previous import
\* ---------------------------------------------------------------------------

Answered(r) == reqs # Unused /\ reqs[r].pc \in {"done", "settled"}

\* the imported events and the import records of a member
ImportOf(database, member) ==
    [events |-> {row \in database.events : row.member_id = member /\ row.is_imported},
     imports |-> {row \in database.imports : row.member_id = member}]

\* the POST request r has been answered with one of the statuses while the
\* other request has not begun
AnsweredAlone(r, statuses) ==
    /\ Answered(r) /\ reqs[r].method = "POST" /\ reqs[r].status \in statuses
    /\ \A other \in Requests \ {r} : reqs[other].pc = "start"

\* a POST answered 400 or 404 has left the member's import as it was
C27_RejectedKeepsImport ==
    \A r \in Requests :
        AnsweredAlone(r, {400, 404}) =>
            ImportOf(db, reqs[r].memberId) = ImportOf(InitialDb, reqs[r].memberId)

\* C27: when POST /api/import answers with an error status (validation
\* failure, unknown member, parse failure or event insertion failure), the
\* member's imported events and import record are those of before the request
C27_ErrorKeepsImport ==
    \A r \in Requests :
        AnsweredAlone(r, {400, 404, 500}) =>
            ImportOf(db, reqs[r].memberId) = ImportOf(InitialDb, reqs[r].memberId)

\* the insertion failed after both deletions succeeded: the answer is 500 and
\* Alice's previous import is gone
C27_ImportLost ==
    /\ AnsweredAlone(1, {500})
    /\ reqs[1].failed = {"insertEvents"}
    /\ ImportOf(db, Alice) = [events |-> {}, imports |-> {}]

\* ---------------------------------------------------------------------------
\* Two uploads for one member
\* ---------------------------------------------------------------------------

\* a row of calendar_events without the id the database gave it
Content(row) ==
    [member_id |-> row.member_id, start_date |-> row.start_date, end_date |-> row.end_date,
     status |-> row.status, note |-> row.note, is_imported |-> row.is_imported]

\* the rows the file of request r is inserted as
RowsOfFile(r) ==
    {Content(row) : row \in EventsToInsert(reqs[r].parseResult.events, reqs[r].memberId, 0)}

\* both requests are uploads for the same member, both answered 201, and no
\* deletion of either returned an error
BothImported ==
    /\ \A r \in Requests :
           /\ Answered(r) /\ reqs[r].method = "POST" /\ reqs[r].status = 201
           /\ reqs[r].failed \cap {"deleteEvents", "deleteImport"} = {}
    /\ reqs[1].memberId = reqs[2].memberId

\* C28: once two concurrent successful POST /api/import for one member have
\* completed, the member's imported events are exactly the events of one of
\* the two files and the member has at most one import record
C28_OneFileWins ==
    BothImported =>
        /\ \E r \in Requests :
               {Content(row) : row \in ImportOf(db, reqs[1].memberId).events} = RowsOfFile(r)
        /\ Cardinality(ImportOf(db, reqs[1].memberId).imports) <= 1

\* both uploads deleted before either inserted: the events of planning.ics and
\* of planning.csv are both in the table, under two import records
C28_BothFilesKept ==
    /\ BothImported
    /\ reqs[1].file.name = "planning.ics" /\ reqs[2].file.name = "planning.csv"
    /\ {Content(row) : row \in ImportOf(db, Alice).events} = RowsOfFile(1) \cup RowsOfFile(2)
    /\ Cardinality(ImportOf(db, Alice).imports) = 2

\* ---------------------------------------------------------------------------
\* What an import and a removal leave alone
\* ---------------------------------------------------------------------------

\* the request that takes the step
Acting(r) == reqs[r].pc # reqs'[r].pc

\* a request that may delete the imported events of the member: an upload, or
\* a removal with deleteEvents
MayDeleteFor(r, member) ==
    /\ Acting(r) /\ reqs[r].memberId = member
    /\ reqs[r].method = "DELETE" => reqs[r].deleteEvents

StoreEvents(state) == {state.events[k] : k \in 1..Len(state.events)}

\* every row and every store event that a step removes is an imported event
\* of the member of the request taking the step
OnlyImportedOfMemberRemoved ==
    /\ \A row \in db.events \ db'.events :
           row.is_imported /\ \E r \in Requests : MayDeleteFor(r, row.member_id)
    /\ \A event \in StoreEvents(store) \ StoreEvents(store') :
           event.isImported /\ \E r \in Requests : MayDeleteFor(r, event.memberId)

\* C30: an import for member m and the removal of an imported calendar of m
\* leave every event that is not imported and every event of another member
\* as it is; only m's imported events go, and none with deleteEvents false
C30_OthersUntouched == [][OnlyImportedOfMemberRemoved]_vars

\* Alice's old.ics was removed with deleteEvents false and planning.ics then
\* imported for her: her imported row is replaced, her manual event and Bob's
\* events are where they were, in the table and in the store
C30_Witness ==
    /\ \A r \in Requests : reqs[r].pc = "settled" /\ reqs[r].memberId = Alice
    /\ reqs[1].method = "POST" /\ reqs[1].status = 201 /\ reqs[1].failed = {}
    /\ reqs[2].method = "DELETE" /\ reqs[2].status = 200 /\ ~reqs[2].deleteEvents
    /\ {row.id : row \in InitialDb.events} \ {row.id : row \in db.events} = {RowId(1)}
    /\ {event.id : event \in StoreEvents(LoadedStore)} \ {event.id : event \in StoreEvents(store)}
           = {RowId(1)}

\* ---------------------------------------------------------------------------
\* store.addEvent, POST /api/events and the realtime subscription of the
\* client that added the event
\* ---------------------------------------------------------------------------

VALID_STATUSES == {"company", "available", "school", "unavailable", "vacation"}

\* the argument of store.addEvent
NewEvent(member, startDate, endDate, status, note) ==
    [memberId |-> member, startDate |-> startDate, endDate |-> endDate,
     status |-> status, note |-> note, isImported |-> FALSE]

NewEvents ==
    {NewEvent(m, At(2025, 3, 3, 32400000), At(2025, 3, 4, 61200000), "company", n) :
         m \in {Alice, Bob, Stranger, "member-123"}, n \in {"", "Client"}}
    \cup {NewEvent(Alice, At(2025, 3, 5, 0), At(2025, 3, 4, 0), "school", ""),
          NewEvent(Alice, At(2025, 3, 5, 0), At(2025, 3, 5, 0), "holiday", "")}

\* a call of addEvent: its request, then the answer on its way back
AddEventCall(event) ==
    [event |-> event, pc |-> "start", status |-> 0, row |-> EventRow("", "", At(2025, 1, 1, 0), At(2025, 1, 1, 0), "", Null, FALSE)]

InitStore ==
    /\ file = NoFile /\ pc = "idle" /\ result = NoResult
    /\ reads = 0 /\ invoked = "none" /\ ret = NoResult /\ memberId = "" /\ arg = 0
    /\ calls = Unused
    /\ db = InitialDb
    /\ store = LoadedStore
    /\ chan = [realtime |-> <<>>]
    /\ \E first \in NewEvents : \E second \in NewEvents :
           reqs = [r \in Requests |-> AddEventCall(IF r = 1 THEN first ELSE second)]

StoreFrame == UNCHANGED <<ParseVars, calls>>

\* endDate < startDate
EndsBeforeStart(event) == DateBefore(event.endDate, event.startDate)

\* POST /api/events, part_001 lines 336-402: the body is validated
PostEventValidate(r) ==
    /\ At_(r, "start")
    /\ reqs' = IF reqs[r].event.memberId = "" \/ ~IsUUID(reqs[r].event.memberId)
                  \/ EndsBeforeStart(reqs[r].event)
                  \/ reqs[r].event.status \notin VALID_STATUSES
               THEN Respond(r, 400)
               ELSE Goto(r, "member")
    /\ UNCHANGED <<db, store, chan>> /\ StoreFrame

\* POST /api/events, lines 404-417: the member must exist
PostEventMemberLookup(r) ==
    /\ At_(r, "member")
    /\ reqs' = IF reqs[r].event.memberId \in db.members THEN Goto(r, "insert") ELSE Respond(r, 404)
    /\ UNCHANGED <<db, store, chan>> /\ StoreFrame

\* lines 419-434: the row of the event, with the id the database gives it
InsertedRow(event, nextId) ==
    EventRow(RowId(nextId), event.memberId, startOfDay(event.startDate), endOfDay(event.endDate),
             event.status, IF event.note = "" THEN Null ELSE Str(event.note), event.isImported)

\* POST /api/events, lines 419-455: the row is inserted and returned; the
\* table's subscribers are sent the INSERT
PostEventInsert(r) ==
    /\ At_(r, "insert")
    /\ \E ok \in BOOLEAN :
           IF ok
           THEN /\ db' = [db EXCEPT !.events = @ \cup {InsertedRow(reqs[r].event, db.nextId)},
                                    !.nextId = @ + 1]
                /\ reqs' = [Respond(r, 201) EXCEPT ![r].row = InsertedRow(reqs[r].event, db.nextId)]
                /\ chan' = [chan EXCEPT !.realtime = Append(@, InsertedRow(reqs[r].event, db.nextId))]
           ELSE /\ reqs' = Respond(r, 500)
                /\ UNCHANGED <<db, chan>>
    /\ UNCHANGED store /\ StoreFrame

\* store.addEvent after its await, lines 174-201: apiFetch throws on an
\* answer that is not ok; otherwise the event of the answer is appended
AddEventResponse(r) ==
    /\ At_(r, "done")
    /\ reqs' = Goto(r, "settled")
    /\ store' = IF reqs[r].status = 201
                THEN [store EXCEPT !.events = Append(@, CalendarEventOf(reqs[r].row))]
                ELSE store
    /\ UNCHANGED <<db, chan>> /\ StoreFrame

\* the realtime callback for an INSERT, part_004 lines 176-197: the event is
\* appended unless the store has one with its id
RealtimeInsert ==
    /\ chan # Unused /\ Len(chan.realtime) > 0
    /\ chan' = [chan EXCEPT !.realtime = Tail(@)]
    /\ store' = IF \E k \in 1..Len(store.events) : store.events[k].id = Head(chan.realtime).id
                THEN store
                ELSE [store EXCEPT !.events = Append(@, CalendarEventOf(Head(chan.realtime)))]
    /\ UNCHANGED <<db, reqs>> /\ StoreFrame

NextStore ==
    \/ \E r \in Requests :
           \/ PostEventValidate(r)
           \/ PostEventMemberLookup(r)
           \/ PostEventInsert(r)
           \/ AddEventResponse(r)
    \/ RealtimeInsert

SpecStore == InitStore /\ [][NextStore]_vars

\* C29: the store never holds two events with the same id, however the
\* handling of addEvent's answer and the realtime INSERT callback for the new
\* event interleave
C29_NoDuplicateId ==
    \A i, j \in 1..Len(store.events) :
        store.events[i].id = store.events[j].id => i = j

\* the realtime callback alone never appends an id the store has: without an
\* answer handled, the ids are distinct
C29_RealtimeAloneKeepsIdsDistinct ==
    (\A r \in Requests : reqs[r].pc # "settled") => C29_NoDuplicateId

\* the INSERT was delivered before the answer was handled: the new event is
\* twice in the store
C29_AddedTwice ==
    /\ reqs[1].pc = "settled" /\ reqs[1].status = 201
    /\ Cardinality({k \in 1..Len(store.events) : store.events[k].id = reqs[1].row.id}) = 2

====
